---- MODULE Spec2Model ----
(***************************************************************************)
(* Model of the tool layer of the data-analyst assistant: the process-wide *)
(* DataFrame cache (utils/state_manager.py), the tools that read it        *)
(* (tools/analysis_tools.py, tools/viz_tools.py), the ingestion tools      *)
(* (tools/file_tools.py, tools/web_tools.py), the SQL connection slot      *)
(* (tools/sql_tools.py) and the report tools (tools/report_tools.py).      *)
(***************************************************************************)
EXTENDS Integers, Sequences, FiniteSets, TLC

VARIABLES
    cache,      \* _dataframe_cache: insertion-ordered dict, a sequence of [name, df]
    engine,     \* _engine of sql_tools: None or the engine of a connection string
    last,       \* the most recent call: [tool, args, raised, ret, db]
    log,        \* history: the store / clear calls made so far, in order
    run,        \* the call in progress: its position (pc) and its local variables
    session     \* st.session_state of the app and the files held by its uploader

vars == <<cache, engine, last, log, run, session>>

(***************************************************************************)
(* Bounds of the model.                                                    *)
(***************************************************************************)
MaxLog == 3          \* store / clear calls recorded in a behaviour
MaxDatasets == 2     \* datasets the ingestion tools may have loaded at a time

(***************************************************************************)
(* Values.                                                                 *)
(***************************************************************************)
None == [isNone |-> TRUE]

\* A cell of a DataFrame: a number, a string (a sequence of characters), a
\* timestamp (of so many nanoseconds) or NaN / NaT.
Num(n) == [kind |-> "num", num |-> n, str |-> <<>>]
Str(s) == [kind |-> "str", num |-> 0, str |-> s]
Timestamp(n) == [kind |-> "date", num |-> n, str |-> <<>>]
NaN == [kind |-> "null", num |-> 0, str |-> <<>>]

\* DataFrames the ingestion tools can produce: columns and rows in order.
DfEmp ==
    [columns |-> <<"dept", "sal", "year">>,
     rows |-> << <<Str(<<"e", "n", "g">>), Num(3), Num(4)>>,
                 <<Str(<<"o", "p", "s">>), Num(1), Num(2)>>,
                 <<NaN, Num(2), Num(3)>>,
                 <<Str(<<"e", "n", "g">>), Num(1), Num(1)>> >>]

DfEmpty == [columns |-> <<"dept", "sal">>, rows |-> <<>>]

\* a table with a missing value in each column
DfNulls ==
    [columns |-> <<"dept", "sal">>,
     rows |-> << <<Str(<<"e", "n", "g">>), Num(3)>>,
                 <<Str(<<"e", "n", "g">>), NaN>>,
                 <<NaN, Num(2)>>,
                 <<Str(<<"o", "p", "s">>), Num(1)>> >>]

\* a table of numbers with gaps: 3 values in sal and in year, 2 rows with both
DfGaps ==
    [columns |-> <<"sal", "year", "age">>,
     rows |-> << <<Num(3), Num(1), Num(5)>>,
                 <<NaN, Num(2), Num(6)>>,
                 <<Num(2), NaN, Num(7)>>,
                 <<Num(1), Num(4), Num(8)>> >>]

\* a long table: 51 large values, from 151 down to 101, then 154 zeros
DfWide ==
    [columns |-> <<"sal">>,
     rows |-> [i \in 1..205 |-> <<Num(IF i <= 51 THEN 152 - i ELSE 0)>>]]

DataFrames == {DfEmp, DfEmpty}

\* Dataset names: the ones a store call uses, and the ones a caller asks for.
StoreNames == {"A", "B", "C"}
ReqNames == StoreNames \cup {"zzz", ""}

(***************************************************************************)
(* The dict operations store_dataframe / get_dataframe rely on.            *)
(***************************************************************************)
DictKeys(d) == [i \in 1..Len(d) |-> d[i].name]

DictHas(d, k) == \E i \in 1..Len(d) : d[i].name = k

\* dict.get(k): the value under k, or None
DictGet(d, k) ==
    IF DictHas(d, k)
    THEN d[CHOOSE i \in 1..Len(d) : d[i].name = k].df
    ELSE None

\* faulty variant: d[k] = v that deletes an existing key and re-inserts it at the end
DictSet_moveToEnd(d, k, v) ==
    Append(SelectSeq(d, LAMBDA e : e.name # k), [name |-> k, df |-> v])

\* d[k] = v: replaces the value in place, or appends a new key
DictSet(d, k, v) ==
    IF DictHas(d, k)
    THEN [i \in 1..Len(d) |-> IF d[i].name = k THEN [name |-> k, df |-> v] ELSE d[i]]
    ELSE Append(d, [name |-> k, df |-> v])

(***************************************************************************)
(* utils/state_manager.py                                                  *)
(***************************************************************************)
\* faulty variant: _dataframe_cache.setdefault(name, df): the first write wins
store_dataframe_setdefault(d, name, df) ==
    IF DictHas(d, name) THEN d ELSE DictSet(d, name, df)

\* the cache after store_dataframe(name, df)
store_dataframe(d, name, df) == DictSet(d, name, df)

\* faulty variant: "rows": df.shape[1]
store_meta_shape1(df) == [columns |-> df.columns, rows |-> Len(df.columns)]

\* the metadata store_dataframe returns
store_meta(df) == [columns |-> df.columns, rows |-> Len(df.rows)]

\* faulty variant: no single-dataset fallback
get_dataframe_nofallback(d, name) == DictGet(d, name)

\* faulty variant: fallback whenever anything is loaded: len(_dataframe_cache) >= 1
get_dataframe_anyfallback(d, name) ==
    LET df == DictGet(d, name) IN
    IF df # None THEN df
    ELSE IF Len(d) >= 1 THEN d[1].df
    ELSE None

\* faulty variant: exact match only for a non-empty DataFrame: "df is not None and not df.empty"
get_dataframe_nonempty(d, name) ==
    LET df == DictGet(d, name) IN
    IF df # None /\ df.rows # <<>> THEN df
    ELSE IF Len(d) = 1 THEN d[1].df
    ELSE None

get_dataframe(d, name) ==
    LET df == DictGet(d, name) IN
    IF df # None THEN df
    ELSE IF Len(d) = 1 THEN d[1].df
    ELSE None

list_datasets(d) == DictKeys(d)

\* faulty variant: clear_cache that leaves the dict alone
clear_cache_noop(d) == d

clear_cache(d) == <<>>

(***************************************************************************)
(* DataFrame primitives (pandas), as far as the tools depend on them.      *)
(***************************************************************************)
Range(f) == {f[i] : i \in DOMAIN f}

HasColumn(df, c) == c \in Range(df.columns)

ColIndex(df, c) == CHOOSE i \in 1..Len(df.columns) : df.columns[i] = c

\* df[c]: the cells of column c, in row order
Column(df, c) == [r \in 1..Len(df.rows) |-> df.rows[r][ColIndex(df, c)]]

isnull(cell) == cell.kind = "null"

\* pd.api.types.is_numeric_dtype / select_dtypes(include="number"): a column
\* of numbers (NaN allowed); the columns of a frame without rows have dtype object
is_numeric_dtype(df, c) ==
    /\ df.rows # <<>>
    /\ \A r \in 1..Len(df.rows) : Column(df, c)[r].kind \in {"num", "null"}

NumericColumns(df) == SelectSeq(df.columns, LAMBDA c : is_numeric_dtype(df, c))

\* df[[c1, ...]]: projection to the listed columns, in the listed order
Project(df, cols) ==
    [columns |-> cols,
     rows |-> [r \in 1..Len(df.rows) |->
                 [k \in 1..Len(cols) |-> df.rows[r][ColIndex(df, cols[k])]]]]

\* dropna(): rows without any NaN
dropna(df) ==
    [columns |-> df.columns,
     rows |-> SelectSeq(df.rows, LAMBDA row : \A k \in 1..Len(row) : ~isnull(row[k]))]

\* head(n)
head(df, n) ==
    [columns |-> df.columns,
     rows |-> SubSeq(df.rows, 1, IF n < Len(df.rows) THEN n ELSE Len(df.rows))]

\* str(int) for the numbers of the model
DigitStr(n) ==
    CASE n = 0 -> <<"0">> [] n = 1 -> <<"1">> [] n = 2 -> <<"2">> [] n = 3 -> <<"3">>
      [] n = 4 -> <<"4">> [] n = 5 -> <<"5">> [] n = 6 -> <<"6">> [] n = 7 -> <<"7">>
      [] n = 8 -> <<"8">> [] n = 9 -> <<"9">>

\* Series.astype(str): str() of every cell. NaN becomes "nan"; the numbers of
\* a column that holds a NaN are floats ("3.0"), otherwise ints ("3")
astype_str(df, c, cell) ==
    CASE cell.kind = "null" -> <<"n", "a", "n">>
      [] cell.kind = "str" -> cell.str
      [] cell.kind = "num" ->
            IF \E r \in 1..Len(df.rows) : isnull(Column(df, c)[r])
            THEN DigitStr(cell.num) \o <<".", "0">>
            ELSE DigitStr(cell.num)

\* str.lower() for the characters of the model
LowerChar(ch) ==
    CASE ch = "E" -> "e" [] ch = "N" -> "n" [] ch = "G" -> "g" [] ch = "R" -> "r"
      [] ch = "L" -> "l" [] ch = "I" -> "i" [] ch = "M" -> "m" [] ch = "T" -> "t"
      [] OTHER -> ch

Lower(str) == [i \in 1..Len(str) |-> LowerChar(str[i])]

\* re.search of a pattern of literal characters
Contains(str, pat) ==
    \E i \in 0..(Len(str) - Len(pat)) :
        \A k \in 1..Len(pat) : str[i + k] = pat[k]

\* re.compile fails on an unbalanced parenthesis
BadRegex(pat) == \E i \in 1..Len(pat) : pat[i] = "("

\* Series.str.contains(pat, case=False, na=False) on strings
str_contains(str, pat) == Contains(Lower(str), Lower(pat))

\* order of the characters / strings / cells that sort_values compares
CharOrd(ch) ==
    CASE ch = "e" -> 1 [] ch = "g" -> 2 [] ch = "n" -> 3 [] ch = "o" -> 4
      [] ch = "p" -> 5 [] ch = "s" -> 6 [] OTHER -> 0

RECURSIVE StrLess(_, _)
StrLess(a, b) ==
    IF b = <<>> THEN FALSE
    ELSE IF a = <<>> THEN TRUE
    ELSE IF CharOrd(a[1]) # CharOrd(b[1]) THEN CharOrd(a[1]) < CharOrd(b[1])
    ELSE StrLess(Tail(a), Tail(b))

CellLess(a, b) ==
    IF a.kind = "str" /\ b.kind = "str" THEN StrLess(a.str, b.str) ELSE a.num < b.num

Perms(n) == {p \in [1..n -> 1..n] : \A i, j \in 1..n : i # j => p[i] # p[j]}

\* sort_values(by=c, ascending=asc): kind="quicksort" (not stable) and
\* na_position="last", so every ordering of the rows that is ordered by the
\* key with the NaN keys at the end is a possible result
sort_values(df, c, asc) ==
    LET key == Column(df, c)
        n == Len(df.rows)
        Ordered(p) ==
            \A i, j \in 1..n : i < j =>
                /\ isnull(key[p[i]]) => isnull(key[p[j]])
                /\ (~isnull(key[p[i]]) /\ ~isnull(key[p[j]])) =>
                      IF asc THEN ~CellLess(key[p[j]], key[p[i]])
                             ELSE ~CellLess(key[p[i]], key[p[j]])
    IN {[columns |-> df.columns, rows |-> [i \in 1..n |-> df.rows[p[i]]]] :
            p \in {q \in Perms(n) : Ordered(q)}}

(***************************************************************************)
(* Tool results: the dict a tool returns, or the exception it raises.      *)
(***************************************************************************)
Error(message) == [status |-> "error", message |-> message]

\* the outcome of a try body that raised instead of returning
Raise(e) == [exception |-> e]

Raised(outcome) == "exception" \in DOMAIN outcome

\* faulty variant: a tool without its handler: the exception leaves the tool
except_Exception_reraise(outcome, prefix) == outcome

\* try: ... except Exception as e: return {"status": "error", "message": f"{prefix}{e}"}
except_Exception(outcome, prefix) ==
    IF Raised(outcome)
    THEN Error([text |-> prefix, e |-> outcome.exception])
    ELSE outcome

\* what the caller of a tool observes
ToolCall(tool, args, outcome, db) ==
    [tool |-> tool, args |-> args, raised |-> Raised(outcome),
     ret |-> IF Raised(outcome) THEN None ELSE outcome, db |-> db]

(***************************************************************************)
(* tools/analysis_tools.py                                                 *)
(***************************************************************************)
NotFoundAvailable(d, name) ==
    Error([text |-> "Dataset '{dataset_name}' not found. Available: {available}",
           dataset_name |-> name, available |-> list_datasets(d)])

NotFound(name) ==
    Error([text |-> "Dataset '{dataset_name}' not found.", dataset_name |-> name])

describe_data(d, dataset_name) ==
    LET df == get_dataframe(d, dataset_name) IN
    IF df = None THEN NotFoundAvailable(d, dataset_name)
    ELSE except_Exception(
            \* df.describe(include="number") has nothing to concatenate
            IF NumericColumns(df) = <<>> THEN Raise("No objects to concatenate")
            ELSE [status |-> "success", dataset_name |-> dataset_name,
                  shape |-> [rows |-> Len(df.rows), columns |-> Len(df.columns)]],
            "")

\* faulty variant: clean = df[[col1, col2]] without dropna()
compute_correlation_nodropna(d, dataset_name, col1, col2) ==
    LET df == get_dataframe(d, dataset_name) IN
    IF df = None THEN NotFound(dataset_name)
    ELSE except_Exception(
            IF ~HasColumn(df, col1) \/ ~HasColumn(df, col2)
            THEN Error([text |-> "Column(s) not found. Available: {columns}",
                        columns |-> df.columns])
            ELSE LET clean == Project(df, <<col1, col2>>) IN
                 IF Len(clean.rows) < 3
                 THEN Error([text |-> "Not enough data points (need at least 3)."])
                 \* clean[col1] is a two-column frame when col1 = col2, and
                 \* pearsonr does not take strings
                 ELSE IF col1 = col2 \/ ~is_numeric_dtype(df, col1) \/ ~is_numeric_dtype(df, col2)
                 THEN Raise("pearsonr")
                 ELSE [status |-> "success", sample_size |-> Len(clean.rows)],
            "")

compute_correlation(d, dataset_name, col1, col2) ==
    LET df == get_dataframe(d, dataset_name) IN
    IF df = None THEN NotFound(dataset_name)
    ELSE except_Exception(
            IF ~HasColumn(df, col1) \/ ~HasColumn(df, col2)
            THEN Error([text |-> "Column(s) not found. Available: {columns}",
                        columns |-> df.columns])
            ELSE LET clean == dropna(Project(df, <<col1, col2>>)) IN
                 IF Len(clean.rows) < 3
                 THEN Error([text |-> "Not enough data points (need at least 3)."])
                 \* clean[col1] is a two-column frame when col1 = col2, and
                 \* pearsonr does not take strings
                 ELSE IF col1 = col2 \/ ~is_numeric_dtype(df, col1) \/ ~is_numeric_dtype(df, col2)
                 THEN Raise("pearsonr")
                 ELSE [status |-> "success", sample_size |-> Len(clean.rows)],
            "")

\* the k-th smallest (k = 0, 1, ...) of a sequence of numbers
Kth(nums, k) ==
    CHOOSE v \in Range(nums) :
        /\ Cardinality({i \in 1..Len(nums) : nums[i] < v}) <= k
        /\ k < Cardinality({i \in 1..Len(nums) : nums[i] <= v})

\* sorted(list)
sorted_list(nums) == [i \in 1..Len(nums) |-> Kth(nums, i - 1)]

\* 4 * Series.quantile(fourths / 4), by linear interpolation between the
\* neighbours of position (n - 1) * fourths / 4 of the sorted values
quantile_x4(nums, fourths) ==
    LET pos4 == (Len(nums) - 1) * fourths
        lo == pos4 \div 4
        rem == pos4 % 4
    IN IF rem = 0 THEN 4 * Kth(nums, lo)
       ELSE 4 * Kth(nums, lo) + rem * (Kth(nums, lo + 1) - Kth(nums, lo))

\* a bound of the IQR rule, which is a multiple of 1/8
Eighths(n) == [num |-> n, den |-> 8]

\* faulty variant: outlier_count is len(outlier_values), taken after the [:50]
count_outliers_capped(outliers) == IF Len(outliers) < 50 THEN Len(outliers) ELSE 50

\* len(outliers)
count_outliers(outliers) == Len(outliers)

detect_outliers(d, dataset_name, column) ==
    LET df == get_dataframe(d, dataset_name) IN
    IF df = None THEN NotFound(dataset_name)
    ELSE except_Exception(
            IF ~HasColumn(df, column)
            THEN Error([text |-> "Column '{column}' not found.", column |-> column])
            ELSE LET series == SelectSeq(Column(df, column), LAMBDA cell : ~isnull(cell)) IN
                 IF ~is_numeric_dtype(df, column)
                 THEN Error([text |-> "Column '{column}' is not numeric.", column |-> column])
                 \* len(outliers) / len(series) on a column of NaN only
                 ELSE IF series = <<>> THEN Raise("division by zero")
                 ELSE LET nums == [i \in 1..Len(series) |-> series[i].num]
                          q1 == quantile_x4(nums, 1)
                          q3 == quantile_x4(nums, 3)
                          iqr == q3 - q1
                          lower == 2 * q1 - 3 * iqr
                          upper == 2 * q3 + 3 * iqr
                          outliers == SelectSeq(nums, LAMBDA v : 8 * v < lower \/ 8 * v > upper)
                      IN [status |-> "success", column |-> column,
                          total_values |-> Len(series),
                          outlier_count |-> count_outliers(outliers),
                          lower_bound |-> Eighths(lower), upper_bound |-> Eighths(upper),
                          outlier_values |-> SubSeq(sorted_list(outliers), 1,
                                                    IF Len(outliers) < 50 THEN Len(outliers)
                                                    ELSE 50)],
            "")

\* pd.to_datetime(errors="coerce") of a cell: numbers are timestamps, the
\* strings of the model are not dates and become NaT
to_datetime(cell) == IF cell.kind = "num" THEN Timestamp(cell.num) ELSE NaN

\* faulty variant: temp = df: line 171 then overwrites the date column of the cached frame
trend_cached_df_inplace(df, date_column, value_column) ==
    IF HasColumn(df, date_column) /\ HasColumn(df, value_column) /\ date_column # value_column
    THEN [columns |-> df.columns,
          rows |-> [r \in 1..Len(df.rows) |->
                      [k \in 1..Len(df.columns) |->
                          IF df.columns[k] = date_column
                          THEN to_datetime(df.rows[r][k]) ELSE df.rows[r][k]]]]
    ELSE df

\* the cached frame after trend_analysis: temp is a new frame (line 170), so
\* the column assignment of line 171 and the sort of line 172 leave df alone
trend_cached_df(df, date_column, value_column) == df

trend_analysis(d, dataset_name, date_column, value_column) ==
    LET df == get_dataframe(d, dataset_name) IN
    IF df = None THEN NotFound(dataset_name)
    ELSE except_Exception(
            IF ~HasColumn(df, date_column) \/ ~HasColumn(df, value_column)
            THEN Error([text |-> "Column(s) not found."])
            \* to_datetime of the two-column frame temp[date_column]
            ELSE IF date_column = value_column THEN Raise("to_datetime")
            ELSE LET temp == dropna(Project(df, <<date_column, value_column>>))
                     dated == dropna([columns |-> temp.columns,
                                      rows |-> [r \in 1..Len(temp.rows) |->
                                                  <<to_datetime(temp.rows[r][1]), temp.rows[r][2]>>]])
                 IN IF Len(dated.rows) < 3
                    THEN Error([text |-> "Not enough data points."])
                    \* astype(float) of strings
                    ELSE IF ~is_numeric_dtype(df, value_column) THEN Raise("astype")
                    ELSE [status |-> "success", points |-> Len(dated.rows)],
            "")

\* the keys of groupby(group_column): the non-null values, in sorted order
GroupKeys(df, group_column) ==
    LET keys == {cell \in Range(Column(df, group_column)) : ~isnull(cell)} IN
    CHOOSE s \in [1..Cardinality(keys) -> keys] :
        \A i, j \in 1..Cardinality(keys) : i < j => CellLess(s[i], s[j])

\* the value_column cells of the rows of the group of key
GroupValues(df, group_column, value_column, key) ==
    LET rows == SelectSeq(df.rows, LAMBDA row : row[ColIndex(df, group_column)] = key)
    IN [i \in 1..Len(rows) |-> rows[i][ColIndex(df, value_column)]]

\* agg "count": the non-null values of the group
agg_count(cells) == Len(SelectSeq(cells, LAMBDA cell : ~isnull(cell)))

\* agg "sum": the sum of the non-null values of the group
RECURSIVE agg_sum(_)
agg_sum(cells) ==
    IF cells = <<>> THEN 0
    ELSE (IF isnull(cells[1]) THEN 0 ELSE cells[1].num) + agg_sum(Tail(cells))

\* groups: one record per key, with the count and the sum of the aggregates
group_statistics(d, dataset_name, group_column, value_column) ==
    LET df == get_dataframe(d, dataset_name) IN
    IF df = None THEN NotFound(dataset_name)
    ELSE except_Exception(
            IF ~HasColumn(df, group_column) \/ ~HasColumn(df, value_column)
            THEN Error([text |-> "Column(s) not found."])
            \* mean / std of strings
            ELSE IF df.rows # <<>> /\ ~is_numeric_dtype(df, value_column) THEN Raise("agg")
            ELSE LET keys == GroupKeys(df, group_column)
                     groups ==
                        [k \in 1..Len(keys) |->
                            LET cells == GroupValues(df, group_column, value_column, keys[k])
                            IN [key |-> keys[k], count |-> agg_count(cells),
                                sum |-> agg_sum(cells)]]
                 IN [status |-> "success", group_column |-> group_column,
                     value_column |-> value_column, groups |-> groups,
                     total_groups |-> Len(groups)],
            "")

correlation_matrix(d, dataset_name) ==
    LET df == get_dataframe(d, dataset_name) IN
    IF df = None THEN NotFound(dataset_name)
    ELSE except_Exception(
            IF NumericColumns(df) = <<>>
            THEN Error([text |-> "No numeric columns found."])
            ELSE [status |-> "success", columns |-> NumericColumns(df)],
            "")

\* faulty variant: head(top_n) taken before the sort
query_data_headfirst(d, a) ==
    LET df == get_dataframe(d, a.dataset_name) IN
    IF df = None THEN {NotFoundAvailable(d, a.dataset_name)}
    ELSE LET filterOn == a.filter_column # "" /\ a.filter_value # <<>>
             filtered ==
                 IF filterOn /\ HasColumn(df, a.filter_column)
                 THEN [columns |-> df.columns,
                       rows |-> SelectSeq(df.rows, LAMBDA row :
                          str_contains(
                            astype_str(df, a.filter_column, row[ColIndex(df, a.filter_column)]),
                            a.filter_value))]
                 ELSE df
             valid_cols == SelectSeq(a.columns, LAMBDA c : HasColumn(filtered, c))
             selected == IF a.columns # <<>> THEN Project(filtered, valid_cols) ELSE filtered
             limited == IF a.top_n > 0 THEN head(selected, a.top_n) ELSE selected
             sorted ==
                 IF a.sort_by # "" /\ HasColumn(selected, a.sort_by)
                 THEN sort_values(limited, a.sort_by, a.ascending)
                 ELSE {limited}
             Limit(r) == r
         IN IF filterOn /\ ~HasColumn(df, a.filter_column)
            THEN {except_Exception(
                    Error([text |-> "Column '{filter_column}' not found. Available: {columns}",
                           filter_column |-> a.filter_column, columns |-> df.columns]), "")}
            ELSE IF filterOn /\ BadRegex(a.filter_value)
            THEN {except_Exception(Raise("re.error"), "")}
            ELSE IF a.columns # <<>> /\ valid_cols = <<>>
            THEN {except_Exception(
                    Error([text |-> "None of the requested columns found. Available: {columns}",
                           columns |-> filtered.columns]), "")}
            ELSE IF a.sort_by # "" /\ ~HasColumn(selected, a.sort_by)
            THEN {except_Exception(
                    Error([text |-> "Sort column '{sort_by}' not found. Available: {columns}",
                           sort_by |-> a.sort_by, columns |-> selected.columns]), "")}
            ELSE {except_Exception(
                    [status |-> "success", dataset_name |-> a.dataset_name,
                     rows_returned |-> Len(Limit(r).rows), total_rows |-> Len(df.rows),
                     data |-> Limit(r)], "") : r \in sorted}

\* faulty variant: the sort column is looked up, and the rows sorted, before the projection
query_data_sortfirst(d, a) ==
    LET df == get_dataframe(d, a.dataset_name) IN
    IF df = None THEN {NotFoundAvailable(d, a.dataset_name)}
    ELSE LET filterOn == a.filter_column # "" /\ a.filter_value # <<>>
             filtered ==
                 IF filterOn /\ HasColumn(df, a.filter_column)
                 THEN [columns |-> df.columns,
                       rows |-> SelectSeq(df.rows, LAMBDA row :
                          str_contains(
                            astype_str(df, a.filter_column, row[ColIndex(df, a.filter_column)]),
                            a.filter_value))]
                 ELSE df
             valid_cols == SelectSeq(a.columns, LAMBDA c : HasColumn(filtered, c))
             selected == filtered
             Select(r) == IF a.columns # <<>> THEN Project(r, valid_cols) ELSE r
             sorted ==
                 IF a.sort_by # "" /\ HasColumn(selected, a.sort_by)
                 THEN {Select(r) : r \in sort_values(selected, a.sort_by, a.ascending)}
                 ELSE {Select(selected)}
             Limit(r) == IF a.top_n > 0 THEN head(r, a.top_n) ELSE r
         IN IF filterOn /\ ~HasColumn(df, a.filter_column)
            THEN {except_Exception(
                    Error([text |-> "Column '{filter_column}' not found. Available: {columns}",
                           filter_column |-> a.filter_column, columns |-> df.columns]), "")}
            ELSE IF filterOn /\ BadRegex(a.filter_value)
            THEN {except_Exception(Raise("re.error"), "")}
            ELSE IF a.columns # <<>> /\ valid_cols = <<>>
            THEN {except_Exception(
                    Error([text |-> "None of the requested columns found. Available: {columns}",
                           columns |-> filtered.columns]), "")}
            ELSE IF a.sort_by # "" /\ ~HasColumn(selected, a.sort_by)
            THEN {except_Exception(
                    Error([text |-> "Sort column '{sort_by}' not found. Available: {columns}",
                           sort_by |-> a.sort_by, columns |-> selected.columns]), "")}
            ELSE {except_Exception(
                    [status |-> "success", dataset_name |-> a.dataset_name,
                     rows_returned |-> Len(Limit(r).rows), total_rows |-> Len(df.rows),
                     data |-> Limit(r)], "") : r \in sorted}

\* query_data: every dict the call can return (sort_values leaves the order
\* of equal keys open)
query_data(d, a) ==
    LET df == get_dataframe(d, a.dataset_name) IN
    IF df = None THEN {NotFoundAvailable(d, a.dataset_name)}
    ELSE LET filterOn == a.filter_column # "" /\ a.filter_value # <<>>
             filtered ==
                 IF filterOn /\ HasColumn(df, a.filter_column)
                 THEN [columns |-> df.columns,
                       rows |-> SelectSeq(df.rows, LAMBDA row :
                          str_contains(
                            astype_str(df, a.filter_column, row[ColIndex(df, a.filter_column)]),
                            a.filter_value))]
                 ELSE df
             valid_cols == SelectSeq(a.columns, LAMBDA c : HasColumn(filtered, c))
             selected == IF a.columns # <<>> THEN Project(filtered, valid_cols) ELSE filtered
             sorted ==
                 IF a.sort_by # "" /\ HasColumn(selected, a.sort_by)
                 THEN sort_values(selected, a.sort_by, a.ascending)
                 ELSE {selected}
             Limit(r) == IF a.top_n > 0 THEN head(r, a.top_n) ELSE r
         IN IF filterOn /\ ~HasColumn(df, a.filter_column)
            THEN {except_Exception(
                    Error([text |-> "Column '{filter_column}' not found. Available: {columns}",
                           filter_column |-> a.filter_column, columns |-> df.columns]), "")}
            ELSE IF filterOn /\ BadRegex(a.filter_value)
            THEN {except_Exception(Raise("re.error"), "")}
            ELSE IF a.columns # <<>> /\ valid_cols = <<>>
            THEN {except_Exception(
                    Error([text |-> "None of the requested columns found. Available: {columns}",
                           columns |-> filtered.columns]), "")}
            ELSE IF a.sort_by # "" /\ ~HasColumn(selected, a.sort_by)
            THEN {except_Exception(
                    Error([text |-> "Sort column '{sort_by}' not found. Available: {columns}",
                           sort_by |-> a.sort_by, columns |-> selected.columns]), "")}
            ELSE {except_Exception(
                    [status |-> "success", dataset_name |-> a.dataset_name,
                     rows_returned |-> Len(Limit(r).rows), total_rows |-> Len(df.rows),
                     data |-> Limit(r)], "") : r \in sorted}

(***************************************************************************)
(* tools/viz_tools.py.  saved says whether writing the image file worked   *)
(* (_save_plotly / _save_matplotlib raise when it does not).               *)
(***************************************************************************)
Chart(chart_type, saved) ==
    IF saved
    THEN [status |-> "success", chart_path |-> "outputs/{title}_{uuid}.png",
          chart_type |-> chart_type]
    ELSE Raise("write_image")

create_bar_chart(d, dataset_name, x_column, y_column, top_n, saved) ==
    LET df == get_dataframe(d, dataset_name) IN
    IF df = None THEN NotFound(dataset_name)
    ELSE except_Exception(
            \* nlargest wants a numeric column of the frame
            IF top_n > 0 /\ (~HasColumn(df, y_column) \/ ~is_numeric_dtype(df, y_column))
            THEN Raise("nlargest")
            ELSE IF ~HasColumn(df, x_column) \/ ~HasColumn(df, y_column)
            THEN Raise("px.bar")
            ELSE Chart("bar", saved),
            "")

\* create_line_chart, create_scatter_plot: px.line / px.scatter of df
create_xy_chart(d, chart_type, dataset_name, x_column, y_column, saved) ==
    LET df == get_dataframe(d, dataset_name) IN
    IF df = None THEN NotFound(dataset_name)
    ELSE except_Exception(
            IF ~HasColumn(df, x_column) \/ ~HasColumn(df, y_column)
            THEN Raise("px")
            ELSE Chart(chart_type, saved),
            "")

create_histogram(d, dataset_name, column, saved) ==
    LET df == get_dataframe(d, dataset_name) IN
    IF df = None THEN NotFound(dataset_name)
    ELSE except_Exception(
            IF ~HasColumn(df, column) THEN Raise("px.histogram")
            ELSE Chart("histogram", saved),
            "")

\* df.groupby(names_column)[values_column].sum().reset_index(): one row per
\* category that is there, with the sum of its values
pie_grouped(df, names_column, values_column) ==
    LET keys == GroupKeys(df, names_column) IN
    [columns |-> <<names_column, values_column>>,
     rows |-> [k \in 1..Len(keys) |->
                 <<keys[k], Num(agg_sum(GroupValues(df, names_column, values_column, keys[k])))>>]]

\* head(top_n) together with iloc[from:]: how many rows a slice [:n] keeps
SliceEnd(len, n) ==
    IF n >= 0 THEN (IF n < len THEN n ELSE len)
    ELSE (IF len + n > 0 THEN len + n ELSE 0)

Other == Str(<<"O", "t", "h", "e", "r">>)

\* faulty variant: other_val = plot_df.iloc[top_n + 1:][values_column].sum()
pie_other_val_skipone(rows, top_n) ==
    agg_sum([i \in 1..(Len(rows) - SliceEnd(Len(rows), top_n + 1)) |->
                rows[SliceEnd(Len(rows), top_n + 1) + i][2]])

\* other_val = plot_df.iloc[top_n:][values_column].sum()
pie_other_val(rows, top_n) ==
    agg_sum([i \in 1..(Len(rows) - SliceEnd(Len(rows), top_n)) |->
                rows[SliceEnd(Len(rows), top_n) + i][2]])

\* the tables px.pie can be given: the categories by falling sum (the order
\* of equal sums is open), cut to top_n rows and an "Other" row
pie_plot_df(df, names_column, values_column, top_n) ==
    {IF Len(plot_df.rows) > top_n
     THEN [columns |-> plot_df.columns,
           rows |-> Append(SubSeq(plot_df.rows, 1, SliceEnd(Len(plot_df.rows), top_n)),
                           <<Other, Num(pie_other_val(plot_df.rows, top_n))>>)]
     ELSE plot_df :
        plot_df \in sort_values(pie_grouped(df, names_column, values_column),
                                values_column, FALSE)}

create_pie_chart(d, dataset_name, names_column, values_column, saved) ==
    LET df == get_dataframe(d, dataset_name) IN
    IF df = None THEN NotFound(dataset_name)
    ELSE except_Exception(
            \* groupby(names_column)[values_column] of a missing column
            IF ~HasColumn(df, names_column) \/ ~HasColumn(df, values_column)
            THEN Raise("KeyError")
            \* reset_index(): cannot insert names_column, already exists
            ELSE IF names_column = values_column THEN Raise("reset_index")
            ELSE Chart("pie", saved),
            "")

create_heatmap(d, dataset_name, saved) ==
    LET df == get_dataframe(d, dataset_name) IN
    IF df = None THEN NotFound(dataset_name)
    ELSE except_Exception(
            IF NumericColumns(df) = <<>>
            THEN Error([text |-> "No numeric columns found."])
            ELSE Chart("heatmap", saved),
            "")

(***************************************************************************)
(* The files, pages and endpoints the ingestion tools read.                *)
(***************************************************************************)
\* os.path.exists(os.path.join(UPLOADS_DIR, file_path))
exists(file_path) == file_path \in {"A.csv", "bad.csv", "A.xlsx", "A.pdf"}

\* os.path.splitext(os.path.basename(file_path))[0]
splitext_basename(file_path) ==
    CASE file_path \in {"A.csv", "A.xlsx", "A.pdf"} -> "A"
      [] file_path = "bad.csv" -> "bad"
      [] OTHER -> "missing"

\* pd.read_csv: the parsed frame, or None when the parser raises
read_csv(file_path) == IF file_path = "A.csv" THEN DfEmp ELSE None

\* pd.read_excel(sheet_name=...): sheet 0 or sheet "s1" of A.xlsx, else raises
read_excel(file_path, sheet) ==
    IF file_path = "A.xlsx" /\ sheet \in {"0", "s1"} THEN DfEmp ELSE None

\* f"{base}_{sheet_name}"
base_sheet(base, sheet_name) ==
    CASE base = "A" /\ sheet_name = "s1" -> "A_s1"
      [] OTHER -> "A_nosheet"

\* pd.read_html(url): the tables of the page; raises (None) when the page
\* cannot be fetched or has no table
read_html(url) == IF url = "http://tables" THEN [tables |-> <<DfEmpty>>] ELSE None

\* f"web_table_{table_index}"
web_table(table_index) ==
    CASE table_index = 0 -> "web_table_0"
      [] OTHER -> "web_table_5"

\* requests.get(url).json(): the rows of a JSON list of objects, a JSON
\* object ("object"), or None when the request or the decoding raises
response_json(url) ==
    CASE url = "http://api/rows" -> [rows |-> DfEmp]
      [] url = "http://api/object" -> [object |-> "{...}"]
      [] OTHER -> None

(***************************************************************************)
(* tools/file_tools.py and tools/web_tools.py.  An ingestion tool yields   *)
(* the returned dict and the cache it leaves.                              *)
(***************************************************************************)
Ingest(outcome, d, prefix) == [ret |-> except_Exception(outcome, prefix), cache |-> d]

Loaded(name, df) ==
    [status |-> "success", dataset_name |-> name,
     rows |-> store_meta(df).rows, columns |-> store_meta(df).columns]

load_csv(d, file_path, dataset_name) ==
    IF ~exists(file_path)
    THEN Ingest(Error([text |-> "File not found: {file_path}", file_path |-> file_path]), d, "")
    ELSE LET df == read_csv(file_path)
             name == IF dataset_name # "" THEN dataset_name ELSE splitext_basename(file_path)
         IN IF df = None THEN Ingest(Raise("read_csv"), d, "")
            ELSE Ingest(Loaded(name, df), store_dataframe(d, name, df), "")

load_excel(d, file_path, sheet_name, dataset_name) ==
    IF ~exists(file_path)
    THEN Ingest(Error([text |-> "File not found: {file_path}", file_path |-> file_path]), d, "")
    ELSE LET sheet == IF sheet_name # "" THEN sheet_name ELSE "0"
             df == read_excel(file_path, sheet)
             base == splitext_basename(file_path)
             \* dataset_name or f"{base}_{sheet_name}" if sheet_name else base
             name == IF sheet_name # ""
                     THEN (IF dataset_name # "" THEN dataset_name
                           ELSE base_sheet(base, sheet_name))
                     ELSE base
         IN IF df = None THEN Ingest(Raise("read_excel"), d, "")
            ELSE Ingest(Loaded(name, df), store_dataframe(d, name, df), "")

load_pdf(file_path, readable) ==
    except_Exception(
        IF ~exists(file_path)
        THEN Error([text |-> "File not found: {file_path}", file_path |-> file_path])
        ELSE IF ~readable THEN Raise("PdfReader")
        ELSE [status |-> "success", filename |-> file_path],
        "")

list_uploaded_files(d, listable) ==
    except_Exception(
        IF ~listable THEN Raise("os.listdir")
        ELSE [status |-> "success", loaded_datasets |-> list_datasets(d)],
        "")

scrape_webpage(url, fetched) ==
    except_Exception(
        IF ~fetched THEN Raise("requests.get")
        ELSE [status |-> "success", url |-> url],
        "Scraping failed: ")

\* faulty variant: the first table is stored before table_index is checked
scrape_table_storefirst(d, url, table_index, dataset_name) ==
    LET page == read_html(url)
        tables == page.tables
        name == IF dataset_name # "" THEN dataset_name ELSE web_table(table_index)
    IN
    IF page = None THEN Ingest(Raise("read_html"), d, "Table scraping failed: ")
    ELSE IF tables = <<>>
    THEN Ingest(Error([text |-> "No tables found on the page."]), d, "Table scraping failed: ")
    ELSE IF table_index >= Len(tables)
    THEN Ingest(Error([text |-> "Table index {table_index} out of range. Found {n} table(s).",
                       table_index |-> table_index, n |-> Len(tables)]),
                store_dataframe(d, name, tables[1]), "Table scraping failed: ")
    ELSE Ingest([tables_found |-> Len(tables)] @@ Loaded(name, tables[table_index + 1]),
                store_dataframe(d, name, tables[table_index + 1]), "Table scraping failed: ")

scrape_table(d, url, table_index, dataset_name) ==
    LET page == read_html(url)
        tables == page.tables
    IN
    IF page = None THEN Ingest(Raise("read_html"), d, "Table scraping failed: ")
    ELSE IF tables = <<>>
    THEN Ingest(Error([text |-> "No tables found on the page."]), d, "Table scraping failed: ")
    ELSE IF table_index >= Len(tables)
    THEN Ingest(Error([text |-> "Table index {table_index} out of range. Found {n} table(s).",
                       table_index |-> table_index, n |-> Len(tables)]),
                d, "Table scraping failed: ")
    ELSE LET df == tables[table_index + 1]
             name == IF dataset_name # "" THEN dataset_name ELSE web_table(table_index)
         IN Ingest([tables_found |-> Len(tables)] @@ Loaded(name, df),
                   store_dataframe(d, name, df), "Table scraping failed: ")

\* headers: "" | a string that is not JSON | JSON that is not an object
fetch_api_data(d, url, headers, dataset_name) ==
    LET data == response_json(url) IN
    \* req_headers.update(extra) of a JSON list
    IF headers = "[1]" THEN Ingest(Raise("update"), d, "API request failed: ")
    ELSE IF data = None THEN Ingest(Raise("requests.get"), d, "API request failed: ")
    ELSE IF "rows" \in DOMAIN data
    THEN LET name == IF dataset_name # "" THEN dataset_name ELSE "api_data" IN
         Ingest([url |-> url] @@ Loaded(name, data.rows),
                store_dataframe(d, name, data.rows), "API request failed: ")
    ELSE Ingest([status |-> "success", url |-> url, data |-> data.object],
                d, "API request failed: ")

(***************************************************************************)
(* tools/report_tools.py: the report file is written or the writing raises *)
(***************************************************************************)
generate_report(format, written) ==
    except_Exception(
        IF ~written THEN Raise("open")
        ELSE [status |-> "success", report_path |-> "outputs/report_{uuid}", format |-> format],
        "")

(***************************************************************************)
(* tools/sql_tools.py.  An engine is the connection string it was made of; *)
(* up says whether the database answers the call.                          *)
(***************************************************************************)
\* create_engine(connection_string) raises on a string that is no URL
valid_url(connection_string) == connection_string # "not a url"

NotConnected ==
    Error([text |-> "No database connected. Use connect_database first."])

\* faulty variant: without "global _engine" the new engine stays local
connect_database_local(connection_string, up) ==
    IF valid_url(connection_string) /\ up
    THEN [ret |-> [status |-> "success", message |-> [text |-> "Connected to database successfully."],
                   tables |-> <<"t">>],
          engine |-> None]
    ELSE [ret |-> except_Exception(Raise("connect"), "Connection failed: "),
          engine |-> None]

\* the returned dict and the _engine the call leaves
connect_database(connection_string, up) ==
    IF valid_url(connection_string) /\ up
    THEN [ret |-> [status |-> "success", message |-> [text |-> "Connected to database successfully."],
                   tables |-> <<"t">>],
          engine |-> [url |-> connection_string]]
    ELSE [ret |-> except_Exception(Raise("connect"), "Connection failed: "),
          engine |-> None]

\* result.fetchall() of a query that returns n rows: row 1, ..., row n
fetchall(query) == [i \in 1..query.n |-> i]

\* faulty variant: row_count taken from the rows kept for display
execute_sql_countkept(e, query, up) ==
    IF e = None THEN NotConnected
    ELSE except_Exception(
            IF ~up \/ query.kind = "invalid" THEN Raise("execute")
            ELSE IF query.kind = "select"
            THEN LET rows == fetchall(query)
                     kept == SubSeq(rows, 1, IF Len(rows) < 200 THEN Len(rows) ELSE 200)
                 IN [status |-> "success", row_count |-> Len(kept),
                     rows |-> kept, truncated |-> Len(rows) > 200]
            ELSE [status |-> "success",
                  message |-> [text |-> "Query executed successfully. Rows affected: {rowcount}",
                               rowcount |-> query.n]],
            "Query failed: ")

execute_sql(e, query, up) ==
    IF e = None THEN NotConnected
    ELSE except_Exception(
            IF ~up \/ query.kind = "invalid" THEN Raise("execute")
            ELSE IF query.kind = "select"
            THEN LET rows == fetchall(query) IN
                 [status |-> "success", row_count |-> Len(rows),
                  rows |-> SubSeq(rows, 1, IF Len(rows) < 200 THEN Len(rows) ELSE 200),
                  truncated |-> Len(rows) > 200]
            ELSE [status |-> "success",
                  message |-> [text |-> "Query executed successfully. Rows affected: {rowcount}",
                               rowcount |-> query.n]],
            "Query failed: ")

\* faulty variant: no connection read as a database without tables
list_tables_empty(e, up) ==
    IF e = None THEN [status |-> "success", tables |-> <<>>]
    ELSE except_Exception(
            IF ~up THEN Raise("inspect")
            ELSE [status |-> "success", tables |-> <<"t">>],
            "")

list_tables(e, up) ==
    IF e = None THEN NotConnected
    ELSE except_Exception(
            IF ~up THEN Raise("inspect")
            ELSE [status |-> "success", tables |-> <<"t">>],
            "")

describe_table(e, table_name, up) ==
    IF e = None THEN NotConnected
    ELSE except_Exception(
            IF ~up \/ table_name # "t" THEN Raise("get_columns")
            ELSE [status |-> "success", table_name |-> table_name],
            "")

\* the database a SQL tool talks to: the one of the engine, if there is one
Database(e) == IF e = None THEN "" ELSE e.url

NoCall == [tool |-> "", args |-> <<>>, raised |-> FALSE, ret |-> None, db |-> ""]

Call(tool, args, ret) ==
    [tool |-> tool, args |-> args, raised |-> FALSE, ret |-> ret, db |-> ""]

\* no call in progress
Idle == [pc |-> "idle"]

\* the app is not running
NoSession == [messages |-> <<>>, session_id |-> "", uploaded |-> <<>>]

Init ==
    /\ cache = <<>>
    /\ engine = None
    /\ last = NoCall
    /\ log = <<>>
    /\ run = Idle
    /\ session = NoSession

StoreDataframe ==
    \E name \in StoreNames, df \in DataFrames :
        /\ Len(log) < MaxLog
        /\ cache' = store_dataframe(cache, name, df)
        /\ log' = Append(log, [op |-> "store", name |-> name, df |-> df])
        /\ last' = Call("store_dataframe", [name |-> name], store_meta(df))
        /\ UNCHANGED <<engine, run, session>>

GetDataframe ==
    \E name \in ReqNames :
        /\ last' = Call("get_dataframe", [name |-> name], get_dataframe(cache, name))
        /\ UNCHANGED <<cache, engine, log, run, session>>

ListDatasets ==
    /\ last' = Call("list_datasets", <<>>, [names |-> list_datasets(cache)])
    /\ UNCHANGED <<cache, engine, log, run, session>>

ClearCache ==
    /\ Len(log) < MaxLog
    /\ cache' = clear_cache(cache)
    /\ log' = Append(log, [op |-> "clear", name |-> "", df |-> None])
    /\ last' = Call("clear_cache", <<>>, None)
    /\ UNCHANGED <<engine, run, session>>

Next ==
    \/ StoreDataframe
    \/ GetDataframe
    \/ ListDatasets
    \/ ClearCache

Spec == Init /\ [][Next]_vars

(***************************************************************************)
(* The arguments the dispatcher passes to the tools.                       *)
(***************************************************************************)
ToolNames == {"A", "zzz"}
Columns == {"dept", "sal", "zzz"}
ColumnPairs ==
    {<<"dept", "sal">>, <<"year", "sal">>, <<"sal", "dept">>, <<"sal", "sal">>,
     <<"zzz", "sal">>, <<"sal", "zzz">>}

Query(sort_by, ascending, top_n, filter_column, filter_value, columns) ==
    [sort_by |-> sort_by, ascending |-> ascending, top_n |-> top_n,
     filter_column |-> filter_column, filter_value |-> filter_value, columns |-> columns]

Queries ==
    {Query("", TRUE, 0, "", <<>>, <<>>),
     Query("sal", FALSE, 2, "dept", <<"E", "N", "G">>, <<>>),
     Query("sal", TRUE, 0, "", <<>>, <<"sal", "zzz">>),
     Query("sal", TRUE, 0, "", <<>>, <<"dept">>),
     Query("dept", TRUE, 3, "", <<>>, <<>>),
     Query("zzz", TRUE, 0, "zzz", <<>>, <<>>),
     Query("", TRUE, 0, "zzz", <<"e">>, <<>>),
     Query("", TRUE, 0, "dept", <<"n">>, <<>>),
     Query("", TRUE, 0, "dept", <<"(">>, <<>>),
     Query("", TRUE, 1, "sal", <<"1">>, <<"zzz">>)}

CsvPaths == {"A.csv", "bad.csv", "missing.csv"}
ExcelPaths == {"A.xlsx", "missing.xlsx"}
SheetNames == {"", "s1", "nosheet"}
GivenNames == {"", "B"}
TableUrls == {"http://tables", "http://down"}
TableIndexes == {0, 5}
ApiUrls == {"http://api/rows", "http://api/object", "http://down"}
ApiHeaders == {"", "{bad", "[1]"}
ConnectionStrings == {"sqlite:///db1", "not a url"}
SqlQueries ==
    {[kind |-> "select", n |-> 2], [kind |-> "select", n |-> 200],
     [kind |-> "select", n |-> 201],
     [kind |-> "write", n |-> 1], [kind |-> "invalid", n |-> 0]}
TableNames == {"t", "zzz"}

(***************************************************************************)
(* Tool calls.                                                             *)
(***************************************************************************)
DescribeData ==
    \E n \in ToolNames :
        /\ last' = ToolCall("describe_data", [dataset_name |-> n],
                            describe_data(cache, n), "")
        /\ UNCHANGED <<cache, engine, log, run, session>>

ComputeCorrelation ==
    \E n \in ToolNames, c \in ColumnPairs :
        /\ last' = ToolCall("compute_correlation", [dataset_name |-> n],
                            compute_correlation(cache, n, c[1], c[2]), "")
        /\ UNCHANGED <<cache, engine, log, run, session>>

DetectOutliers ==
    \E n \in ToolNames, c \in Columns :
        /\ last' = ToolCall("detect_outliers", [dataset_name |-> n],
                            detect_outliers(cache, n, c), "")
        /\ UNCHANGED <<cache, engine, log, run, session>>

\* the key under which get_dataframe finds the frame of a name
ResolvedKey(d, name) == IF DictHas(d, name) THEN name ELSE d[1].name

TrendAnalysis ==
    \E n \in ToolNames, c \in ColumnPairs :
        /\ last' = ToolCall("trend_analysis", [dataset_name |-> n],
                            trend_analysis(cache, n, c[1], c[2]), "")
        /\ cache' = IF get_dataframe(cache, n) = None THEN cache
                    ELSE DictSet(cache, ResolvedKey(cache, n),
                                 trend_cached_df(get_dataframe(cache, n), c[1], c[2]))
        /\ UNCHANGED <<engine, log, run, session>>

GroupStatistics ==
    \E n \in ToolNames, c \in ColumnPairs :
        /\ last' = ToolCall("group_statistics", [dataset_name |-> n],
                            group_statistics(cache, n, c[1], c[2]), "")
        /\ UNCHANGED <<cache, engine, log, run, session>>

QueryData ==
    \E n \in ToolNames, q \in Queries :
        \E outcome \in query_data(cache, [dataset_name |-> n] @@ q) :
            /\ last' = ToolCall("query_data", [dataset_name |-> n],
                                outcome, "")
            /\ UNCHANGED <<cache, engine, log, run, session>>

CorrelationMatrix ==
    \E n \in ToolNames :
        /\ last' = ToolCall("correlation_matrix", [dataset_name |-> n],
                            correlation_matrix(cache, n), "")
        /\ UNCHANGED <<cache, engine, log, run, session>>

CreateBarChart ==
    \E n \in ToolNames, c \in ColumnPairs, top_n \in {0, 2}, saved \in BOOLEAN :
        /\ last' = ToolCall("create_bar_chart", [dataset_name |-> n],
                            create_bar_chart(cache, n, c[1], c[2], top_n, saved), "")
        /\ UNCHANGED <<cache, engine, log, run, session>>

CreateLineChart ==
    \E n \in ToolNames, c \in ColumnPairs, saved \in BOOLEAN :
        /\ last' = ToolCall("create_line_chart", [dataset_name |-> n],
                            create_xy_chart(cache, "line", n, c[1], c[2], saved), "")
        /\ UNCHANGED <<cache, engine, log, run, session>>

CreateScatterPlot ==
    \E n \in ToolNames, c \in ColumnPairs, saved \in BOOLEAN :
        /\ last' = ToolCall("create_scatter_plot", [dataset_name |-> n],
                            create_xy_chart(cache, "scatter", n, c[1], c[2], saved), "")
        /\ UNCHANGED <<cache, engine, log, run, session>>

CreateHistogram ==
    \E n \in ToolNames, c \in Columns, saved \in BOOLEAN :
        /\ last' = ToolCall("create_histogram", [dataset_name |-> n],
                            create_histogram(cache, n, c, saved), "")
        /\ UNCHANGED <<cache, engine, log, run, session>>

CreatePieChart ==
    \E n \in ToolNames, c \in ColumnPairs, saved \in BOOLEAN :
        /\ last' = ToolCall("create_pie_chart", [dataset_name |-> n],
                            create_pie_chart(cache, n, c[1], c[2], saved), "")
        /\ UNCHANGED <<cache, engine, log, run, session>>

CreateHeatmap ==
    \E n \in ToolNames, saved \in BOOLEAN :
        /\ last' = ToolCall("create_heatmap", [dataset_name |-> n],
                            create_heatmap(cache, n, saved), "")
        /\ UNCHANGED <<cache, engine, log, run, session>>

LoadCsv ==
    \E f \in CsvPaths, n \in GivenNames :
        LET result == load_csv(cache, f, n) IN
        /\ Len(result.cache) <= MaxDatasets
        /\ cache' = result.cache
        /\ last' = ToolCall("load_csv", [file_path |-> f, dataset_name |-> n],
                            result.ret, "")
        /\ UNCHANGED <<engine, log, run, session>>

LoadExcel ==
    \E f \in ExcelPaths, sh \in SheetNames, n \in GivenNames :
        LET result == load_excel(cache, f, sh, n) IN
        /\ Len(result.cache) <= MaxDatasets
        /\ cache' = result.cache
        /\ last' = ToolCall("load_excel",
                            [file_path |-> f, sheet_name |-> sh, dataset_name |-> n],
                            result.ret, "")
        /\ UNCHANGED <<engine, log, run, session>>

LoadPdf ==
    \E f \in {"A.pdf", "missing.pdf"}, readable \in BOOLEAN :
        /\ last' = ToolCall("load_pdf", <<>>,
                            load_pdf(f, readable), "")
        /\ UNCHANGED <<cache, engine, log, run, session>>

ListUploadedFiles ==
    \E listable \in BOOLEAN :
        /\ last' = ToolCall("list_uploaded_files", <<>>,
                            list_uploaded_files(cache, listable), "")
        /\ UNCHANGED <<cache, engine, log, run, session>>

ScrapeWebpage ==
    \E u \in TableUrls, fetched \in BOOLEAN :
        /\ last' = ToolCall("scrape_webpage", <<>>,
                            scrape_webpage(u, fetched), "")
        /\ UNCHANGED <<cache, engine, log, run, session>>

ScrapeTable ==
    \E u \in TableUrls, i \in TableIndexes, n \in GivenNames :
        LET result == scrape_table(cache, u, i, n) IN
        /\ Len(result.cache) <= MaxDatasets
        /\ cache' = result.cache
        /\ last' = ToolCall("scrape_table", <<>>, result.ret, "")
        /\ UNCHANGED <<engine, log, run, session>>

FetchApiData ==
    \E u \in ApiUrls, h \in ApiHeaders, n \in GivenNames :
        LET result == fetch_api_data(cache, u, h, n) IN
        /\ Len(result.cache) <= MaxDatasets
        /\ cache' = result.cache
        /\ last' = ToolCall("fetch_api_data", <<>>, result.ret, "")
        /\ UNCHANGED <<engine, log, run, session>>

GenerateMarkdownReport ==
    \E written \in BOOLEAN :
        /\ last' = ToolCall("generate_markdown_report", <<>>,
                            generate_report("markdown", written), "")
        /\ UNCHANGED <<cache, engine, log, run, session>>

GeneratePdfReport ==
    \E written \in BOOLEAN :
        /\ last' = ToolCall("generate_pdf_report", <<>>,
                            generate_report("pdf", written), "")
        /\ UNCHANGED <<cache, engine, log, run, session>>

ConnectDatabase ==
    \E cs \in ConnectionStrings, up \in BOOLEAN :
        LET result == connect_database(cs, up) IN
        /\ engine' = result.engine
        /\ last' = ToolCall("connect_database", <<>>, result.ret,
                            IF valid_url(cs) THEN cs ELSE "")
        /\ UNCHANGED <<cache, log, run, session>>

ExecuteSql ==
    \E q \in SqlQueries, up \in BOOLEAN :
        /\ last' = ToolCall("execute_sql", [query |-> q], execute_sql(engine, q, up),
                            Database(engine))
        /\ UNCHANGED <<cache, engine, log, run, session>>

ListTables ==
    \E up \in BOOLEAN :
        /\ last' = ToolCall("list_tables", <<>>, list_tables(engine, up), Database(engine))
        /\ UNCHANGED <<cache, engine, log, run, session>>

DescribeTable ==
    \E t \in TableNames, up \in BOOLEAN :
        /\ last' = ToolCall("describe_table", <<>>, describe_table(engine, t, up), Database(engine))
        /\ UNCHANGED <<cache, engine, log, run, session>>

NextTools ==
    \/ LoadCsv
    \/ LoadExcel
    \/ LoadPdf
    \/ ListUploadedFiles
    \/ ScrapeWebpage
    \/ ScrapeTable
    \/ FetchApiData
    \/ DescribeData
    \/ ComputeCorrelation
    \/ DetectOutliers
    \/ TrendAnalysis
    \/ GroupStatistics
    \/ QueryData
    \/ CorrelationMatrix
    \/ CreateBarChart
    \/ CreateLineChart
    \/ CreateScatterPlot
    \/ CreateHistogram
    \/ CreatePieChart
    \/ CreateHeatmap
    \/ GenerateMarkdownReport
    \/ GeneratePdfReport
    \/ ConnectDatabase
    \/ ExecuteSql
    \/ ListTables
    \/ DescribeTable

SpecTools == Init /\ [][NextTools]_vars

(***************************************************************************)
(* The SQL tools on their own, with two databases to connect to and every  *)
(* connect call recorded in log.                                           *)
(***************************************************************************)
SqlConnectionStrings == {"sqlite:///db1", "sqlite:///db2", "not a url"}

Connect ==
    \E cs \in SqlConnectionStrings, up \in BOOLEAN :
        LET result == connect_database(cs, up) IN
        /\ Len(log) < MaxLog
        /\ engine' = result.engine
        /\ log' = Append(log, [op |-> "connect", name |-> cs,
                               ok |-> result.ret.status = "success"])
        /\ last' = ToolCall("connect_database", <<>>, result.ret,
                            IF valid_url(cs) THEN cs ELSE "")
        /\ UNCHANGED <<cache, run, session>>

NextSql ==
    \/ Connect
    \/ ExecuteSql
    \/ ListTables
    \/ DescribeTable

SpecSql == Init /\ [][NextSql]_vars

(***************************************************************************)
(* query_data and group_statistics on their own: one dataset "A" is loaded *)
(* and a tool is called with any combination of arguments, which the call  *)
(* records.  Neither tool changes the store, so the first call after the   *)
(* load shows every outcome a later call can have.                         *)
(***************************************************************************)
AnalysisFrames == {DfEmp, DfEmpty, DfNulls, DfGaps}
SortColumns == {"", "dept", "sal", "zzz"}
TopNs == {-1, 0, 2, 5}
FilterColumns == {"", "dept", "sal", "zzz"}
FilterValues ==
    {<<>>, <<"n">>, <<"n", "a", "n">>, <<"n", "o", "n", "e">>, <<"E">>, <<"1">>, <<"(">>}
ColumnLists == {<<>>, <<"sal">>, <<"sal", "dept">>, <<"zzz">>, <<"sal", "zzz">>}
GroupColumns == {"dept", "sal", "zzz"}
AnalysisColumns == {"dept", "sal", "year", "age", "zzz"}
PieNames == {"dept", "sal", "zzz"}
PieValues == {"sal", "year", "zzz"}
PieTopNs == {-1, 0, 1, 2, 10}

\* the stores the calls start from: one table loaded as "A", or an empty
\* table as "A" and the long one as "W"
AnalysisStores ==
    {store_dataframe(<<>>, "A", df) : df \in AnalysisFrames}
        \cup {store_dataframe(store_dataframe(<<>>, "A", DfEmpty), "W", DfWide)}
AnalysisNames == {"A", "W"}

InitAnalysis ==
    /\ cache \in AnalysisStores
    /\ log = [i \in 1..Len(cache) |-> [op |-> "store", name |-> cache[i].name,
                                       df |-> cache[i].df]]
    /\ engine = None
    /\ last = NoCall
    /\ run = Idle
    /\ session = NoSession

QueryDataArgs ==
    /\ last = NoCall
    /\ \E sort_by \in SortColumns, ascending \in BOOLEAN, top_n \in TopNs,
          filter_column \in FilterColumns, filter_value \in FilterValues,
          columns \in ColumnLists :
        LET a == [dataset_name |-> "A"] @@
                 Query(sort_by, ascending, top_n, filter_column, filter_value, columns)
        IN \E outcome \in query_data(cache, a) :
            /\ last' = ToolCall("query_data", a, outcome, "")
            /\ UNCHANGED <<cache, engine, log, run, session>>

GroupStatisticsArgs ==
    /\ last = NoCall
    /\ \E group_column \in GroupColumns, value_column \in GroupColumns :
        /\ last' = ToolCall("group_statistics",
                            [dataset_name |-> "A", group_column |-> group_column,
                             value_column |-> value_column],
                            group_statistics(cache, "A", group_column, value_column), "")
        /\ UNCHANGED <<cache, engine, log, run, session>>

ComputeCorrelationArgs ==
    /\ last = NoCall
    /\ \E col1 \in AnalysisColumns, col2 \in AnalysisColumns :
        /\ last' = ToolCall("compute_correlation",
                            [dataset_name |-> "A", col1 |-> col1, col2 |-> col2],
                            compute_correlation(cache, "A", col1, col2), "")
        /\ UNCHANGED <<cache, engine, log, run, session>>

DetectOutliersArgs ==
    /\ last = NoCall
    /\ \E n \in AnalysisNames, column \in AnalysisColumns :
        /\ last' = ToolCall("detect_outliers", [dataset_name |-> n, column |-> column],
                            detect_outliers(cache, n, column), "")
        /\ UNCHANGED <<cache, engine, log, run, session>>

TrendAnalysisArgs ==
    /\ last = NoCall
    /\ \E date_column \in AnalysisColumns, value_column \in AnalysisColumns :
        /\ last' = ToolCall("trend_analysis",
                            [dataset_name |-> "A", date_column |-> date_column,
                             value_column |-> value_column],
                            trend_analysis(cache, "A", date_column, value_column), "")
        /\ cache' = DictSet(cache, "A",
                            trend_cached_df(get_dataframe(cache, "A"), date_column, value_column))
        /\ UNCHANGED <<engine, log, run, session>>

\* figure: the table the written chart shows
CreatePieChartArgs ==
    /\ last = NoCall
    /\ \E names_column \in PieNames, values_column \in PieValues, top_n \in PieTopNs,
          saved \in BOOLEAN :
        LET call == ToolCall("create_pie_chart",
                             [dataset_name |-> "A", names_column |-> names_column,
                              values_column |-> values_column, top_n |-> top_n],
                             create_pie_chart(cache, "A", names_column, values_column, saved),
                             "")
        IN /\ IF call.ret.status = "success"
              THEN \E figure \in pie_plot_df(get_dataframe(cache, "A"), names_column,
                                             values_column, top_n) :
                      last' = [figure |-> figure] @@ call
              ELSE last' = call
           /\ UNCHANGED <<cache, engine, log, run, session>>

NextAnalysis ==
    \/ QueryDataArgs
    \/ GroupStatisticsArgs
    \/ ComputeCorrelationArgs
    \/ DetectOutliersArgs
    \/ TrendAnalysisArgs
    \/ CreatePieChartArgs

SpecAnalysis == InitAnalysis /\ [][NextAnalysis]_vars

(***************************************************************************)
(* app.py, run_agent_async: the retry loop around the agent run.  run      *)
(* holds the loop variables, the outcome of every attempt made and every   *)
(* delay slept.                                                            *)
(***************************************************************************)
RetryLimits == 0..3

\* str(e) of the exceptions an attempt can end with
ErrorMessages ==
    {<<"4", "2", "9">>, <<"R", "a", "t", "e">>, <<"L", "I", "M", "I", "T">>,
     <<"d", "o", "w", "n">>}

Exception(msg) == [msg |-> msg]

\* faulty variant: every exception is retried
is_rate_limit_any(error_msg) == TRUE

\* "429" in error_msg or "rate" in error_msg.lower() or "limit" in error_msg.lower()
is_rate_limit(error_msg) ==
    \/ Contains(error_msg, <<"4", "2", "9">>)
    \/ Contains(Lower(error_msg), <<"r", "a", "t", "e">>)
    \/ Contains(Lower(error_msg), <<"l", "i", "m", "i", "t">>)

wait_time(attempt) == (attempt + 1) * 15

\* the call: range(max_retries) is empty for max_retries = 0
RunAgentAsync ==
    \E max_retries \in RetryLimits :
        /\ run.pc \in {"idle", "returned", "raised"}
        /\ run' = [pc |-> IF max_retries > 0 THEN "attempt" ELSE "raised",
                   max_retries |-> max_retries, attempt |-> 0, outcomes |-> <<>>,
                   slept |-> <<>>, last_error |-> None,
                   raised |-> IF max_retries > 0 THEN None
                              ELSE Exception(<<"Max retries exceeded">>)]
        /\ UNCHANGED <<cache, engine, last, log, session>>

\* the agent run of this attempt ends and the response is returned
AttemptReturns ==
    /\ run.pc = "attempt"
    /\ run' = [run EXCEPT !.pc = "returned",
                          !.outcomes = Append(@, [ok |-> TRUE, msg |-> <<>>])]
    /\ UNCHANGED <<cache, engine, last, log, session>>

\* the agent run of this attempt raises
AttemptRaises ==
    \E error_msg \in ErrorMessages :
        /\ run.pc = "attempt"
        /\ run' =
              LET failed == [run EXCEPT !.outcomes = Append(@, [ok |-> FALSE, msg |-> error_msg])]
              IN IF ~is_rate_limit(error_msg)
                 THEN [failed EXCEPT !.pc = "raised", !.raised = Exception(error_msg)]
                 ELSE IF run.attempt < run.max_retries - 1
                 THEN [failed EXCEPT !.pc = "sleeping", !.last_error = Exception(error_msg),
                                     !.slept = Append(@, wait_time(run.attempt))]
                 \* the loop is over: raise last_error
                 ELSE [failed EXCEPT !.pc = "raised", !.last_error = Exception(error_msg),
                                     !.raised = Exception(error_msg)]
        /\ UNCHANGED <<cache, engine, last, log, session>>

\* asyncio.sleep(wait_time) is over: continue with the next attempt
SleepEnds ==
    /\ run.pc = "sleeping"
    /\ run' = [run EXCEPT !.pc = "attempt", !.attempt = @ + 1]
    /\ UNCHANGED <<cache, engine, last, log, session>>

NextRetry ==
    \/ RunAgentAsync
    \/ AttemptReturns
    \/ AttemptRaises
    \/ SleepEnds

\* an agent run and a sleep end
SpecRetry ==
    /\ Init
    /\ [][NextRetry]_vars
    /\ WF_vars(AttemptReturns \/ AttemptRaises)
    /\ WF_vars(SleepEnds)

(***************************************************************************)
(* app.py, the Streamlit script.  Every interaction runs the script from   *)
(* the top: init_session, the sidebar (which loads every file the uploader *)
(* holds into the store), the chat, the intro message.                     *)
(***************************************************************************)
MaxAppLog == 6       \* store calls recorded in a behaviour of the app

\* files a user may drop on the uploader: name, extension, parsed content
\* (None: pandas cannot read it)
UploadFiles ==
    {[stem |-> "A", ext |-> "csv", df |-> DfEmp],
     [stem |-> "B", ext |-> "xlsx", df |-> DfEmpty],
     [stem |-> "A", ext |-> "csv", df |-> None],
     [stem |-> "C", ext |-> "pdf", df |-> None]}

SessionIds == {"session_1", "session_2"}

\* datasets the agent may load with a tool while it answers a prompt
AgentLoads == {<<>>, <<[stem |-> "C", ext |-> "csv", df |-> DfEmp]>>}

Message(role, content) == [role |-> role, content |-> content]

\* the sidebar's loop over uploaded_files; st is [cache, log, session]
RECURSIVE autoload(_, _)
autoload(st, files) ==
    IF files = <<>> THEN st
    ELSE LET f == Head(files)
             stored == f.ext \in {"csv", "xlsx", "xls"} /\ f.df # None
         IN autoload(IF stored
                     THEN [st EXCEPT !.cache = store_dataframe(@, f.stem, f.df),
                                     !.log = Append(@, [op |-> "store", name |-> f.stem,
                                                        df |-> f.df])]
                     ELSE st,
                     Tail(files))

init_session(sess) ==
    IF sess.session_id = "" THEN [sess EXCEPT !.session_id = "session_001"] ELSE sess

\* the auto-intro: on an empty history append the intro and run the script again
intro(st) ==
    IF st.session.messages = <<>>
    THEN autoload([st EXCEPT !.session.messages = <<Message("assistant", "intro")>>],
                  st.session.uploaded)
    ELSE st

\* one run of the script; prompt is "" when the chat input is empty, loads
\* are the datasets the agent's tools store while answering
script(st, prompt, loads) ==
    LET started == [st EXCEPT !.session = init_session(@)]
        sidebar == autoload(started, started.session.uploaded)
        chat == IF prompt = "" THEN sidebar
                ELSE LET asked == [sidebar EXCEPT !.session.messages =
                                       Append(@, Message("user", prompt))]
                         answered == autoload(asked, loads)
                     IN [answered EXCEPT !.session.messages =
                             Append(@, Message("assistant", "response"))]
    IN intro(chat)

\* the Clear Chat button: a new history and session, then st.rerun()
clear_chat(st, new_sid) ==
    LET started == [st EXCEPT !.session = init_session(@)]
        sidebar == autoload(started, started.session.uploaded)
        cleared == [sidebar EXCEPT !.session.messages = <<>>,
                                   !.session.session_id = new_sid]
    IN script(cleared, "", <<>>)

AppState == [cache |-> cache, log |-> log, session |-> session]

StartApp ==
    /\ session = NoSession
    /\ LET st == script(AppState, "", <<>>)
       IN /\ cache' = st.cache
          /\ log' = st.log
          /\ session' = st.session
    /\ last' = Call("app", <<>>, None)
    /\ UNCHANGED <<engine, run>>

UploadFile ==
    \E f \in UploadFiles :
        /\ session # NoSession
        /\ Len(session.uploaded) < MaxDatasets
        /\ LET st == script([AppState EXCEPT !.session.uploaded = Append(@, f)], "", <<>>)
           IN /\ Len(st.log) <= MaxAppLog
              /\ cache' = st.cache
              /\ log' = st.log
              /\ session' = st.session
        /\ last' = Call("file_uploader", [name |-> f.stem], None)
        /\ UNCHANGED <<engine, run>>

Chat ==
    \E loads \in AgentLoads :
        /\ session # NoSession
        /\ LET st == script(AppState, "prompt", loads)
           IN /\ Len(st.log) <= MaxAppLog
              /\ Len(st.session.messages) <= MaxAppLog
              /\ cache' = st.cache
              /\ log' = st.log
              /\ session' = st.session
        /\ last' = Call("chat_input", <<>>, None)
        /\ UNCHANGED <<engine, run>>

ClearChat ==
    \E new_sid \in SessionIds :
        /\ session # NoSession
        /\ LET st == clear_chat(AppState, new_sid)
           IN /\ Len(st.log) <= MaxAppLog
              /\ cache' = st.cache
              /\ log' = st.log
              /\ session' = st.session
        /\ last' = Call("clear_chat", <<>>, None)
        /\ UNCHANGED <<engine, run>>

NextApp ==
    \/ StartApp
    \/ UploadFile
    \/ Chat
    \/ ClearChat

SpecApp == Init /\ [][NextApp]_vars

(***************************************************************************)
(* state_manager.py, get_dataframe run by one thread while other threads   *)
(* call store_dataframe: the dict operations of lines 75-81 are atomic     *)
(* one by one, the function is not.  run holds the position of the call,   *)
(* its argument and the length of log when it began.                       *)
(***************************************************************************)
Returns(name, ret) ==
    Call("get_dataframe", [name |-> name, start |-> run.start, end |-> Len(log)], ret)

\* a thread enters get_dataframe(name)
ResolveCall ==
    \E name \in ReqNames :
        /\ run = Idle
        /\ run' = [pc |-> "get", name |-> name, start |-> Len(log), size |-> 0]
        /\ UNCHANGED <<cache, engine, last, log, session>>

\* df = _dataframe_cache.get(name); if df is not None: return df
ResolveGet ==
    /\ run.pc = "get"
    /\ LET df == DictGet(cache, run.name)
       IN IF df # None
          THEN run' = Idle /\ last' = Returns(run.name, df)
          ELSE run' = [run EXCEPT !.pc = "len"] /\ UNCHANGED last
    /\ UNCHANGED <<cache, engine, log, session>>

\* if len(_dataframe_cache) == 1: ... else return None
ResolveLen ==
    /\ run.pc = "len"
    /\ IF Len(cache) = 1
       THEN run' = [run EXCEPT !.pc = "iter"] /\ UNCHANGED last
       ELSE run' = Idle /\ last' = Returns(run.name, None)
    /\ UNCHANGED <<cache, engine, log, session>>

\* iter(_dataframe_cache.values()): the iterator remembers the dict's size
ResolveIter ==
    /\ run.pc = "iter"
    /\ run' = [run EXCEPT !.pc = "next", !.size = Len(cache)]
    /\ UNCHANGED <<cache, engine, last, log, session>>

\* next(...): RuntimeError if the dict changed size, else its first value
ResolveNext ==
    /\ run.pc = "next"
    /\ run' = Idle
    /\ last' = IF Len(cache) # run.size
               THEN [Returns(run.name, None) EXCEPT !.raised = TRUE]
               ELSE Returns(run.name, cache[1].df)
    /\ UNCHANGED <<cache, engine, log, session>>

NextResolve ==
    \/ StoreDataframe
    \/ ResolveCall
    \/ ResolveGet
    \/ ResolveLen
    \/ ResolveIter
    \/ ResolveNext

SpecResolve == Init /\ [][NextResolve]_vars

(***************************************************************************)
(* sql_tools.py, connect_database run by one thread while other threads    *)
(* use the SQL tools: the statements of lines 27-44 one by one.  run holds *)
(* the position of the call and its connection string.                     *)
(***************************************************************************)
ConnectionFailed == except_Exception(Raise("connect"), "Connection failed: ")

\* a thread enters connect_database(connection_string)
ConnectCall ==
    \E cs \in SqlConnectionStrings :
        /\ run = Idle
        /\ run' = [pc |-> "create_engine", connection_string |-> cs]
        /\ UNCHANGED <<cache, engine, last, log, session>>

\* _engine = create_engine(connection_string)
ConnectCreateEngine ==
    /\ run.pc = "create_engine"
    /\ IF valid_url(run.connection_string)
       THEN /\ engine' = [url |-> run.connection_string]
            /\ run' = [run EXCEPT !.pc = "select_1"]
            /\ UNCHANGED last
       ELSE /\ engine' = None
            /\ run' = Idle
            /\ last' = ToolCall("connect_database", <<>>, ConnectionFailed, "")
    /\ UNCHANGED <<cache, log, session>>

\* with _engine.connect() as conn: conn.execute(text("SELECT 1")), then the
\* inspector's table names; on an exception _engine = None
ConnectSelect1 ==
    \E up \in BOOLEAN :
        /\ run.pc = "select_1"
        /\ engine' = IF up THEN engine ELSE None
        /\ run' = Idle
        /\ last' = ToolCall("connect_database", <<>>,
                            connect_database(run.connection_string, up).ret,
                            run.connection_string)
        /\ UNCHANGED <<cache, log, session>>

NextConnect ==
    \/ ConnectCall
    \/ ConnectCreateEngine
    \/ ConnectSelect1
    \/ ExecuteSql
    \/ ListTables
    \/ DescribeTable

SpecConnect == Init /\ [][NextConnect]_vars

(***************************************************************************)
(* What the store / clear history says the store should hold.              *)
(***************************************************************************)
LastClear(l) ==
    IF \E i \in 1..Len(l) : l[i].op = "clear"
    THEN CHOOSE i \in 1..Len(l) :
            /\ l[i].op = "clear"
            /\ \A j \in (i + 1)..Len(l) : l[j].op # "clear"
    ELSE 0

\* the store calls made since the last clear
Stores(l) == SubSeq(l, LastClear(l) + 1, Len(l))

StoredIn(s, n) == \E i \in 1..Len(s) : s[i].name = n

\* the table of the most recent store(n, .) in s
LastStored(s, n) ==
    s[CHOOSE i \in 1..Len(s) :
        /\ s[i].name = n
        /\ \A j \in (i + 1)..Len(s) : s[j].name # n].df

\* the names of s in the order of their first store
RECURSIVE FirstStoreOrder(_)
FirstStoreOrder(s) ==
    IF s = <<>> THEN <<>>
    ELSE LET front == FirstStoreOrder(SubSeq(s, 1, Len(s) - 1))
             n == s[Len(s)].name
         IN IF \E i \in 1..Len(front) : front[i] = n THEN front ELSE Append(front, n)

(***************************************************************************)
(* C1: after any sequence of store calls with no clear in between, resolve *)
(* of every stored name returns the table of the most recent store for     *)
(* that name (last write wins).                                            *)
(***************************************************************************)
C1_LastWriteWins ==
    \A n \in StoreNames :
        StoredIn(Stores(log), n) =>
            get_dataframe(cache, n) = LastStored(Stores(log), n)

\* "A" was stored, then another name, then "A" again with another table,
\* and resolve("A") has returned the later table.
C1_Witness ==
    /\ last.tool = "get_dataframe"
    /\ last.args.name = "A"
    /\ \E i, j, k \in 1..Len(Stores(log)) :
        /\ i < j /\ j < k
        /\ Stores(log)[i].name = "A"
        /\ Stores(log)[j].name # "A"
        /\ Stores(log)[k].name = "A"
        /\ Stores(log)[k].df # Stores(log)[i].df
        /\ Stores(log)[k].df # Stores(log)[j].df
        /\ last.ret = Stores(log)[k].df

(***************************************************************************)
(* C2: when the store holds exactly one dataset, resolve returns it for    *)
(* every requested name, stored or not, the empty string included.         *)
(***************************************************************************)
C2_SingleFallback ==
    Len(list_datasets(cache)) = 1 =>
        \A x \in ReqNames : get_dataframe(cache, x) = cache[1].df

C2_Witness ==
    /\ Len(cache) = 1
    /\ last.tool = "get_dataframe"
    /\ last.args.name = ""
    /\ cache[1].name # last.args.name
    /\ last.ret = cache[1].df

(***************************************************************************)
(* C3: when the requested name is not a key of the store and the store is  *)
(* empty or holds two or more datasets, resolve returns None.              *)
(***************************************************************************)
C3_ResolveFails ==
    \A x \in ReqNames :
        (~DictHas(cache, x) /\ (Len(cache) = 0 \/ Len(cache) >= 2)) =>
            get_dataframe(cache, x) = None

C3_Witness ==
    /\ Len(cache) >= 2
    /\ last.tool = "get_dataframe"
    /\ ~DictHas(cache, last.args.name)
    /\ last.ret = None

(***************************************************************************)
(* C4: when the requested name is a key of the store, resolve returns the  *)
(* dataset stored under that name, whatever else is loaded.                *)
(***************************************************************************)
C4_ExactMatch ==
    \A i \in 1..Len(cache) : get_dataframe(cache, cache[i].name) = cache[i].df

\* three datasets loaded, an empty table asked for by name among non-empty ones
C4_Witness ==
    /\ Len(cache) = 3
    /\ last.tool = "get_dataframe"
    /\ last.args.name = cache[2].name
    /\ cache[2].df = DfEmpty
    /\ cache[1].df # DfEmpty
    /\ last.ret = cache[2].df

(***************************************************************************)
(* C8: immediately after clear() the list of names is empty and every      *)
(* resolve fails; datasets stored after the clear resolve to the table     *)
(* stored after it, and nothing stored before the clear is listed.         *)
(***************************************************************************)
C8_ClearEmpties ==
    /\ (log # <<>> /\ log[Len(log)].op = "clear") =>
          /\ list_datasets(cache) = <<>>
          /\ \A x \in ReqNames : get_dataframe(cache, x) = None
    /\ LastClear(log) > 0 =>
          /\ \A i \in 1..Len(cache) : StoredIn(Stores(log), cache[i].name)
          /\ \A n \in StoreNames :
                StoredIn(Stores(log), n) =>
                    get_dataframe(cache, n) = LastStored(Stores(log), n)

\* a dataset was stored, the store was cleared, and resolving its name failed
C8_Witness ==
    /\ Len(log) >= 2
    /\ log[Len(log)].op = "clear"
    /\ log[1].op = "store"
    /\ last.tool = "get_dataframe"
    /\ last.args.name = log[1].name
    /\ last.ret = None

(***************************************************************************)
(* C9: list_names() returns every loaded name exactly once, in the order   *)
(* of its first store since the last clear; replacing a name neither       *)
(* duplicates nor moves it.                                                *)
(***************************************************************************)
C9_InsertionOrder ==
    list_datasets(cache) = FirstStoreOrder(Stores(log))

\* "A", then "B", then "A" replaced: the listing is still A, B
C9_Witness ==
    /\ last.tool = "list_datasets"
    /\ last.ret.names = <<"A", "B">>
    /\ Len(Stores(log)) = 3
    /\ Stores(log)[1].name = "A"
    /\ Stores(log)[2].name = "B"
    /\ Stores(log)[3].name = "A"
    /\ Stores(log)[3].df # Stores(log)[1].df

(***************************************************************************)
(* C5: every tool call returns a mapping whose status is "success" or      *)
(* "error", an error result carries a message, and no exception leaves the *)
(* tool.                                                                   *)
(***************************************************************************)
C5_TaggedResult ==
    last.tool # "" =>
        /\ ~last.raised
        /\ "status" \in DOMAIN last.ret
        /\ last.ret.status \in {"success", "error"}
        /\ last.ret.status = "error" =>
              /\ "message" \in DOMAIN last.ret
              /\ "text" \in DOMAIN last.ret.message

\* query_data on a loaded dataset whose filter pattern does not compile: the
\* exception of str.contains came back as an error result
C5_Witness ==
    /\ last.tool = "query_data"
    /\ get_dataframe(cache, last.args.dataset_name) # None
    /\ ~last.raised
    /\ last.ret.status = "error"
    /\ "e" \in DOMAIN last.ret.message
    /\ last.ret.message.e = "re.error"

(***************************************************************************)
(* C6: when a dataset-taking tool fails because the dataset name does not  *)
(* resolve, its error message includes the names of the datasets that are  *)
(* loaded.                                                                 *)
(***************************************************************************)
DatasetTools ==
    {"describe_data", "compute_correlation", "correlation_matrix", "detect_outliers",
     "trend_analysis", "group_statistics", "query_data", "create_bar_chart",
     "create_line_chart", "create_scatter_plot", "create_histogram", "create_pie_chart",
     "create_heatmap"}

\* the dataset names an error message spells out
NamesIn(message) ==
    (IF "available" \in DOMAIN message THEN Range(message.available) ELSE {})
        \cup (IF "dataset_name" \in DOMAIN message THEN {message.dataset_name} ELSE {})

C6_NotFoundNamesLoaded ==
    (/\ last.tool \in DatasetTools
     /\ get_dataframe(cache, last.args.dataset_name) = None) =>
        /\ last.ret.status = "error"
        /\ Range(list_datasets(cache)) \subseteq NamesIn(last.ret.message)

(***************************************************************************)
(* C7: no analysis tool and no chart tool changes the store: after the     *)
(* call the dataset names and every stored table are what they were        *)
(* before it.                                                              *)
(***************************************************************************)
C7_ToolsLeaveStore ==
    [][last'.tool \in DatasetTools => cache' = cache]_vars

\* trend_analysis has parsed and sorted the dates of a loaded dataset, and
\* the stored table still has its numbers in its order
C7_Witness ==
    /\ last.tool = "trend_analysis"
    /\ last.ret.status = "success"
    /\ last.ret.points = 4
    /\ get_dataframe(cache, last.args.dataset_name) = DfEmp

(***************************************************************************)
(* C10: while the connection slot is empty, list_tables, describe_table    *)
(* and execute return an error with a message, leave the slot empty and    *)
(* touch no database.                                                      *)
(***************************************************************************)
C10_DisconnectedIsError ==
    [][(/\ engine = None
        /\ last'.tool \in {"list_tables", "describe_table", "execute_sql"}) =>
            /\ engine' = None
            /\ ~last'.raised
            /\ last'.ret.status = "error"
            /\ "message" \in DOMAIN last'.ret
            /\ last'.db = ""]_vars

C10_Witness ==
    /\ engine = None
    /\ last.tool = "list_tables"
    /\ last.ret = NotConnected
    /\ last.db = ""


(***************************************************************************)
(* The SQL tools that use the connection.                                  *)
(***************************************************************************)
SqlUseTools == {"execute_sql", "list_tables", "describe_table"}

\* the most recent connect call
LastConnect == log[Len(log)]

(***************************************************************************)
(* C11: after a successful connect(c2) made while connected to c1, every   *)
(* later list_tables, describe_table and execute call, up to the next      *)
(* connect call, runs against c2 and none against c1.                      *)
(***************************************************************************)
C11_ConnectionReplaced ==
    (/\ last.tool \in SqlUseTools
     /\ log # <<>>
     /\ LastConnect.ok)
        => /\ last.db = LastConnect.name
           /\ last.ret # NotConnected

C11_Witness ==
    /\ Len(log) = 2
    /\ log[1] = [op |-> "connect", name |-> "sqlite:///db1", ok |-> TRUE]
    /\ log[2] = [op |-> "connect", name |-> "sqlite:///db2", ok |-> TRUE]
    /\ last.tool = "execute_sql"
    /\ last.ret.status = "success"
    /\ last.db = "sqlite:///db2"

(***************************************************************************)
(* C12: a connect call that returns an error leaves the connection slot    *)
(* exactly as it was before the call.                                      *)
(***************************************************************************)
C12_FailedConnectKeepsSlot ==
    [][(last'.tool = "connect_database" /\ last'.ret.status = "error")
          => engine' = engine]_vars

(***************************************************************************)
(* The tools that load a table into the store.                             *)
(***************************************************************************)
IngestTools == {"load_csv", "load_excel", "scrape_table", "fetch_api_data"}

(***************************************************************************)
(* C13: a call of load_csv, load_excel, scrape_table or fetch_api_data     *)
(* that returns status "error" leaves the store as it was before the call. *)
(***************************************************************************)
C13_FailedIngestKeepsStore ==
    [][(last'.tool \in IngestTools /\ last'.ret.status = "error")
          => cache' = cache]_vars

C13_Witness ==
    /\ last.tool = "scrape_table"
    /\ last.ret.status = "error"
    /\ last.ret.message.text = "Table index {table_index} out of range. Found {n} table(s)."
    /\ DictKeys(cache) = <<"A", "B">>

(***************************************************************************)
(* The name a load is to register its table under: the name the caller     *)
(* gave, else the base name of the file, with "_" and the sheet name after *)
(* it when an Excel sheet was named.                                       *)
(***************************************************************************)
LoadTools == {"load_csv", "load_excel"}

NameToRegister(args) ==
    IF args.dataset_name # "" THEN args.dataset_name
    ELSE IF "sheet_name" \in DOMAIN args /\ args.sheet_name # ""
    THEN base_sheet(splitext_basename(args.file_path), args.sheet_name)
    ELSE splitext_basename(args.file_path)

(***************************************************************************)
(* C14: a successful load_csv or load_excel registers the table under      *)
(* exactly the dataset name the caller supplied, with or without an        *)
(* explicit Excel sheet, and under the default name when none is supplied. *)
(***************************************************************************)
C14_LoadRegistersName ==
    (last.tool \in LoadTools /\ last.ret.status = "success")
        => /\ last.ret.dataset_name = NameToRegister(last.args)
           /\ DictHas(cache, NameToRegister(last.args))

(***************************************************************************)
(* C15: after a successful load_csv or load_excel, resolving the returned  *)
(* dataset name gives a table whose row count and column list are the row  *)
(* count and column list the load returned.                                *)
(***************************************************************************)
C15_LoadRoundTrip ==
    (last.tool \in LoadTools /\ last.ret.status = "success")
        => LET df == get_dataframe(cache, last.ret.dataset_name) IN
           /\ df # None
           /\ Len(df.rows) = last.ret.rows
           /\ df.columns = last.ret.columns

C15_Witness ==
    /\ last.tool = "load_csv"
    /\ last.ret.status = "success"
    /\ last.ret.dataset_name = "B"
    /\ last.ret.rows = 4
    /\ DictKeys(cache) = <<"A", "B">>

(***************************************************************************)
(* The stages of a query, as the query contract states them.               *)
(***************************************************************************)
QuerySucceeded == last.tool = "query_data" /\ last.ret.status = "success"

QueriedFrame == get_dataframe(cache, last.args.dataset_name)

\* stage 1: the rows whose filter_column text contains filter_value
FilterStage(df, a) ==
    IF a.filter_column # "" /\ a.filter_value # <<>>
    THEN [columns |-> df.columns,
          rows |-> SelectSeq(df.rows, LAMBDA row :
                      str_contains(astype_str(df, a.filter_column,
                                              row[ColIndex(df, a.filter_column)]),
                                   a.filter_value))]
    ELSE df

\* stage 2: the requested columns that exist, in the requested order
ProjectStage(df, a) ==
    IF a.columns # <<>>
    THEN Project(df, SelectSeq(a.columns, LAMBDA c : HasColumn(df, c)))
    ELSE df

\* rows is in the order of the key at index k, missing keys last
InKeyOrder(rows, k, asc) ==
    \A i, j \in 1..Len(rows) : i < j =>
        /\ isnull(rows[i][k]) => isnull(rows[j][k])
        /\ (~isnull(rows[i][k]) /\ ~isnull(rows[j][k])) =>
              IF asc THEN ~CellLess(rows[j][k], rows[i][k])
                     ELSE ~CellLess(rows[i][k], rows[j][k])

\* stage 3: out holds the rows of df, by the permutation p, in sort_by order
SortStage(df, a, p, out) ==
    /\ Len(out) = Len(df.rows)
    /\ \A i \in 1..Len(out) : out[i] = df.rows[p[i]]
    /\ a.sort_by = "" => \A i \in 1..Len(out) : p[i] = i
    /\ a.sort_by # "" => InKeyOrder(out, ColIndex(df, a.sort_by), a.ascending)

\* stage 4: the first top_n rows, or all of them
FirstRows(rows, top_n) ==
    IF top_n > 0 /\ top_n < Len(rows) THEN SubSeq(rows, 1, top_n) ELSE rows

(***************************************************************************)
(* C16: the rows of a successful query are the first top_n rows (all rows  *)
(* when top_n <= 0) of the dataset filtered, then projected, then sorted   *)
(* by sort_by; rows_returned is at most total_rows, and at most top_n when *)
(* top_n > 0.                                                              *)
(***************************************************************************)
C16_QueryPipeline ==
    QuerySucceeded =>
        LET a == last.args
            staged == ProjectStage(FilterStage(QueriedFrame, a), a)
            n == Len(staged.rows)
        IN /\ last.ret.data.columns = staged.columns
           /\ \E p \in Perms(n) :
                 \E out \in {[i \in 1..n |-> staged.rows[p[i]]]} :
                    /\ SortStage(staged, a, p, out)
                    /\ last.ret.data.rows = FirstRows(out, a.top_n)
           /\ last.ret.rows_returned = Len(last.ret.data.rows)
           /\ last.ret.total_rows = Len(QueriedFrame.rows)
           /\ last.ret.rows_returned <= last.ret.total_rows
           /\ a.top_n > 0 => last.ret.rows_returned <= a.top_n

C16_Witness ==
    /\ QuerySucceeded
    /\ last.args = [dataset_name |-> "A", sort_by |-> "sal", ascending |-> TRUE,
                    top_n |-> 2, filter_column |-> "dept", filter_value |-> <<"n">>,
                    columns |-> <<"sal", "dept">>]
    /\ QueriedFrame = DfEmp
    /\ last.ret.total_rows = 4
    /\ last.ret.rows_returned = 2
    /\ last.ret.data.rows = << <<Num(1), Str(<<"e", "n", "g">>)>>, <<Num(2), NaN>> >>

\* name is given and is no column of df
NamesMissingColumn(df, name) == name # "" /\ ~HasColumn(df, name)

(***************************************************************************)
(* C17: a query whose filter_column or sort_by names a column the dataset  *)
(* does not have fails with an error that names the available columns,     *)
(* whatever the other arguments are, an empty filter_value included.       *)
(***************************************************************************)
C17_MissingColumnFails ==
    (/\ last.tool = "query_data"
     /\ \/ NamesMissingColumn(QueriedFrame, last.args.filter_column)
        \/ NamesMissingColumn(QueriedFrame, last.args.sort_by))
        => /\ last.ret.status = "error"
           /\ "columns" \in DOMAIN last.ret.message

(***************************************************************************)
(* C18: with a filter column and a non-empty filter value (such as "nan",  *)
(* "none" or "n"), no returned row has a missing value in the filter       *)
(* column.                                                                 *)
(***************************************************************************)
C18_FilterExcludesNulls ==
    (/\ QuerySucceeded
     /\ last.args.filter_column # ""
     /\ last.args.filter_value # <<>>
     /\ HasColumn(last.ret.data, last.args.filter_column))
        => \A i \in 1..Len(last.ret.data.rows) :
              ~isnull(last.ret.data.rows[i][ColIndex(last.ret.data, last.args.filter_column)])

\* two keys that sort_by does not order
SameKey(a, b) ==
    IF isnull(a) \/ isnull(b) THEN isnull(a) /\ isnull(b)
    ELSE ~CellLess(a, b) /\ ~CellLess(b, a)

\* the stable sort of rows by the key at index k: rows of equal key keep
\* the order they have in rows
StableSort(rows, k, asc) ==
    LET p == CHOOSE q \in Perms(Len(rows)) :
                /\ InKeyOrder([i \in 1..Len(rows) |-> rows[q[i]]], k, asc)
                /\ \A i, j \in 1..Len(rows) :
                      (i < j /\ SameKey(rows[q[i]][k], rows[q[j]][k])) => q[i] < q[j]
    IN [i \in 1..Len(rows) |-> rows[p[i]]]

(***************************************************************************)
(* C19: a successful query with sort_by returns the rows in the stable     *)
(* order: rows of equal sort key keep their relative order of the dataset, *)
(* ascending or descending.                                                *)
(***************************************************************************)
C19_StableSort ==
    (QuerySucceeded /\ last.args.sort_by # "")
        => LET a == last.args
               staged == ProjectStage(FilterStage(QueriedFrame, a), a)
           IN last.ret.data.rows =
                 FirstRows(StableSort(staged.rows, ColIndex(staged, a.sort_by), a.ascending),
                           a.top_n)

RECURSIVE SumOfCounts(_)
SumOfCounts(groups) ==
    IF groups = <<>> THEN 0 ELSE groups[1].count + SumOfCounts(Tail(groups))

(***************************************************************************)
(* C20: the counts of the groups group_statistics returns add up to the    *)
(* number of rows of the dataset whose group_column value is not missing,  *)
(* also when the value column has missing values.                          *)
(***************************************************************************)
C20_GroupCountsCoverRows ==
    (last.tool = "group_statistics" /\ last.ret.status = "success")
        => SumOfCounts(last.ret.groups) =
              Len(SelectSeq(Column(QueriedFrame, last.args.group_column),
                            LAMBDA cell : ~isnull(cell)))

(***************************************************************************)
(* The analysis tools that take column arguments, and the messages they    *)
(* give when a column argument is no column of the dataset.                *)
(***************************************************************************)
ColumnTools ==
    {"compute_correlation", "detect_outliers", "trend_analysis", "group_statistics",
     "query_data"}

ColumnNotFoundTexts ==
    {"Column(s) not found. Available: {columns}",
     "Column '{column}' not found.",
     "Column(s) not found.",
     "Column '{filter_column}' not found. Available: {columns}",
     "None of the requested columns found. Available: {columns}",
     "Sort column '{sort_by}' not found. Available: {columns}"}

(***************************************************************************)
(* C21: when compute_correlation, detect_outliers, trend_analysis,         *)
(* group_statistics or query_data fails because a column argument is no    *)
(* column of the dataset, the message lists the columns of the dataset.    *)
(***************************************************************************)
C21_ColumnNotFoundListsColumns ==
    (/\ last.tool \in ColumnTools
     /\ last.ret.status = "error"
     /\ last.ret.message.text \in ColumnNotFoundTexts)
        => "columns" \in DOMAIN last.ret.message

\* the number of rows of df with a value in both columns
RowsWithBoth(df, col1, col2) ==
    Cardinality({r \in 1..Len(df.rows) :
                    ~isnull(Column(df, col1)[r]) /\ ~isnull(Column(df, col2)[r])})

InsufficientData(ret) ==
    /\ ret.status = "error"
    /\ ret.message.text = "Not enough data points (need at least 3)."

(***************************************************************************)
(* C22: with both columns in the dataset, compute_correlation answers with *)
(* the insufficient-data error exactly when fewer than 3 rows have a value *)
(* in both columns, and sample_size of a success is the number of such     *)
(* rows.                                                                   *)
(***************************************************************************)
C22_CorrelationMinimumSample ==
    (/\ last.tool = "compute_correlation"
     /\ HasColumn(QueriedFrame, last.args.col1)
     /\ HasColumn(QueriedFrame, last.args.col2))
        => LET n == RowsWithBoth(QueriedFrame, last.args.col1, last.args.col2) IN
           /\ InsufficientData(last.ret) <=> n < 3
           /\ last.ret.status = "success" => last.ret.sample_size = n

C22_Witness ==
    /\ last.tool = "compute_correlation"
    /\ QueriedFrame = DfGaps
    /\ last.args.col1 = "sal"
    /\ last.args.col2 = "year"
    /\ RowsWithBoth(QueriedFrame, "sal", "year") = 2
    /\ InsufficientData(last.ret)

\* how often x is in the sequence
Count(seq, x) == Cardinality({i \in 1..Len(seq) : seq[i] = x})

\* the values of the column that are there
ValuesOf(df, column) ==
    LET series == SelectSeq(Column(df, column), LAMBDA cell : ~isnull(cell))
    IN [i \in 1..Len(series) |-> series[i].num]

\* v is outside the bounds the call returned
OutsideBounds(ret, v) ==
    \/ ret.lower_bound.den * v < ret.lower_bound.num
    \/ ret.upper_bound.den * v > ret.upper_bound.num

(***************************************************************************)
(* C23: on a numeric column, outlier_count of detect_outliers is the       *)
(* number of values strictly outside the bounds, however many they are,    *)
(* and at most total_values, the number of values; outlier_values holds,   *)
(* in ascending order, the 50 smallest of those values, or all of them.    *)
(***************************************************************************)
C23_OutlierCount ==
    (last.tool = "detect_outliers" /\ last.ret.status = "success")
        => LET vals == ValuesOf(QueriedFrame, last.args.column)
               outside == SelectSeq(vals, LAMBDA v : OutsideBounds(last.ret, v))
               listed == last.ret.outlier_values
           IN /\ last.ret.total_values = Len(vals)
              /\ last.ret.outlier_count = Len(outside)
              /\ last.ret.outlier_count <= last.ret.total_values
              /\ Len(listed) = IF Len(outside) < 50 THEN Len(outside) ELSE 50
              /\ \A i, j \in 1..Len(listed) : i < j => listed[i] <= listed[j]
              /\ \A i \in 1..Len(listed) :
                    Count(listed, listed[i]) <= Count(outside, listed[i])
              /\ \A i \in 1..Len(outside) :
                    Count(listed, outside[i]) < Count(outside, outside[i])
                        => \A j \in 1..Len(listed) : listed[j] <= outside[i]

C23_Witness ==
    /\ last.tool = "detect_outliers"
    /\ last.ret.status = "success"
    /\ last.args.dataset_name = "W"
    /\ last.ret.total_values = 205
    /\ last.ret.outlier_count = 51
    /\ Len(last.ret.outlier_values) = 50
    /\ last.ret.outlier_values[1] = 101
    /\ last.ret.outlier_values[50] = 150

(***************************************************************************)
(* C24: execute_sql of a read query that produces n rows returns           *)
(* row_count = n, as rows the first min(n, 200) rows in result order, and  *)
(* truncated = TRUE exactly when n > 200.                                  *)
(***************************************************************************)
C24_RowsCappedAt200 ==
    (/\ last.tool = "execute_sql"
     /\ last.ret.status = "success"
     /\ last.args.query.kind = "select")
        => LET n == last.args.query.n IN
           /\ last.ret.row_count = n
           /\ Len(last.ret.rows) = (IF n < 200 THEN n ELSE 200)
           /\ \A i \in 1..Len(last.ret.rows) : last.ret.rows[i] = fetchall(last.args.query)[i]
           /\ last.ret.truncated <=> n > 200

C24_Witness ==
    /\ last.tool = "execute_sql"
    /\ last.ret.status = "success"
    /\ last.args.query = [kind |-> "select", n |-> 201]
    /\ last.ret.row_count = 201
    /\ Len(last.ret.rows) = 200
    /\ last.ret.rows[200] = 200
    /\ last.ret.truncated

(***************************************************************************)
(* The slices of a pie chart, stated from the rows of the dataset.         *)
(***************************************************************************)
PieDrawn == last.tool = "create_pie_chart" /\ last.ret.status = "success"

\* the rows of df whose names_column cell is the category / is any category
RowsOfCategory(df, names_column, key) ==
    {r \in 1..Len(df.rows) : Column(df, names_column)[r] = key}
RowsWithCategory(df, names_column) ==
    {r \in 1..Len(df.rows) : ~isnull(Column(df, names_column)[r])}

\* the sum of the values_column cells of the rows R, a missing cell adding nothing
RECURSIVE SumOfRows(_, _, _)
SumOfRows(df, values_column, R) ==
    IF R = {} THEN 0
    ELSE LET r == CHOOSE x \in R : TRUE
             cell == Column(df, values_column)[r]
         IN (IF isnull(cell) THEN 0 ELSE cell.num) + SumOfRows(df, values_column, R \ {r})

RECURSIVE SumOfSlices(_)
SumOfSlices(rows) ==
    IF rows = <<>> THEN 0 ELSE rows[1][2].num + SumOfSlices(Tail(rows))

\* the drawn table has the slices of the claim, and the slices add up to the
\* values of the rows R
PieSlices(R) ==
    LET df == QueriedFrame
        names == last.args.names_column
        values == last.args.values_column
        topN == last.args.top_n
        slices == last.figure.rows
        categories == {Column(df, names)[r] : r \in RowsWithCategory(df, names)}
        N == Cardinality(categories)
        SumOf(key) == SumOfRows(df, values, RowsOfCategory(df, names, key))
        top == {slices[i][1] : i \in 1..topN}
    IN /\ (0 <= topN /\ topN < N) =>
            /\ Len(slices) = topN + 1
            /\ \A i \in 1..topN :
                  /\ slices[i][1] \in categories
                  /\ slices[i][2].num = SumOf(slices[i][1])
                  /\ \A j \in 1..topN : i # j => slices[i][1] # slices[j][1]
                  /\ \A key \in categories \ top : SumOf(key) <= slices[i][2].num
            /\ slices[topN + 1][1] = Other
            /\ slices[topN + 1][2].num =
                  SumOfRows(df, values, {r \in RowsWithCategory(df, names) :
                                            Column(df, names)[r] \notin top})
            /\ SumOfSlices(slices) = SumOfRows(df, values, R)
       /\ topN >= N =>
            /\ Len(slices) = N
            /\ \A i \in 1..Len(slices) : slices[i][1] \in categories

(***************************************************************************)
(* C25 as stated: with N categories and 0 <= top_n < N the pie has the     *)
(* top_n categories of largest sum and one "Other" slice with the sum of   *)
(* the remaining ones, top_n + 1 slices that add up to the total of the    *)
(* value column; with top_n >= N there is no "Other" slice.                *)
(***************************************************************************)
C25_PieSlicesCoverColumn ==
    PieDrawn => PieSlices(1..Len(QueriedFrame.rows))

(***************************************************************************)
(* C25 amended: the same slices, which add up to the total of the value    *)
(* column over the rows that have a category; the rows whose category is   *)
(* missing are in no slice.                                                *)
(***************************************************************************)
C25_PieSlicesCoverCategories ==
    PieDrawn => PieSlices(RowsWithCategory(QueriedFrame, last.args.names_column))

C25_Witness ==
    /\ PieDrawn
    /\ QueriedFrame = DfEmp
    /\ last.args.names_column = "dept"
    /\ last.args.values_column = "sal"
    /\ last.args.top_n = 1
    /\ last.figure.rows = << <<Str(<<"e", "n", "g">>), Num(4)>>, <<Other, Num(1)>> >>

(***************************************************************************)
(* The retry loop, stated from the attempts made and the delays slept.     *)
(***************************************************************************)
RateLimitMessages ==
    {<<"4", "2", "9">>, <<"R", "a", "t", "e">>, <<"L", "I", "M", "I", "T">>}

RetryRunning == run.pc \in {"attempt", "sleeping"}
RetryFinished == run.pc \in {"returned", "raised"}

RetryBounded ==
    (RetryRunning \/ RetryFinished) =>
        LET n == Len(run.outcomes) IN
        \* at most max_retries attempts
        /\ n + (IF run.pc = "attempt" THEN 1 ELSE 0) <= run.max_retries
        \* an attempt is followed by another one only if it failed for the rate limit
        /\ \A i \in 1..n :
              (i < n \/ RetryRunning) =>
                  ~run.outcomes[i].ok /\ run.outcomes[i].msg \in RateLimitMessages
        \* every further attempt comes after a delay of 15 x (number of the attempt)
        /\ Len(run.slept) = (IF RetryRunning THEN n ELSE IF n > 0 THEN n - 1 ELSE 0)
        /\ \A i \in 1..Len(run.slept) : run.slept[i] = 15 * i
        \* any other failure is raised
        /\ \A i \in 1..n :
              (~run.outcomes[i].ok /\ run.outcomes[i].msg \notin RateLimitMessages) =>
                  /\ i = n
                  /\ run.pc = "raised"
                  /\ run.raised = Exception(run.outcomes[i].msg)

(***************************************************************************)
(* C26: run_agent_async makes at most max_retries attempts and then ends   *)
(* by returning or raising; it makes a further attempt only after a        *)
(* rate-limit failure and a delay of 15 x (attempt number) seconds, and    *)
(* raises any other failure without a retry.                               *)
(***************************************************************************)
C26_BoundedRetry ==
    /\ []RetryBounded
    /\ RetryRunning ~> RetryFinished

C26_Witness ==
    /\ run.pc = "raised"
    /\ run.max_retries = 3
    /\ Len(run.outcomes) = 3
    /\ run.slept = <<15, 30>>
    /\ run.raised = Exception(<<"4", "2", "9">>)

(***************************************************************************)
(* C27: after the Clear Chat action the Dataset Store is empty.            *)
(***************************************************************************)
C27_ClearChatEmptiesStore == last.tool = "clear_chat" => cache = <<>>

(***************************************************************************)
(* The store after the first k calls of log.                               *)
(***************************************************************************)
RECURSIVE StoreAt(_)
StoreAt(k) ==
    IF k = 0 THEN <<>>
    ELSE IF log[k].op = "store" THEN DictSet(StoreAt(k - 1), log[k].name, log[k].df)
    ELSE <<>>

\* the three-case rule: the exact name, else the only dataset, else nothing
ThreeCaseRule(d, name) ==
    IF DictHas(d, name) THEN DictGet(d, name)
    ELSE IF Len(d) = 1 THEN d[1].df
    ELSE None

ResolveReturned == last.tool = "get_dataframe" /\ "start" \in DOMAIN last.args

(***************************************************************************)
(* C28: a resolve interleaved with store calls of other callers returns    *)
(* what the three-case rule yields for some store state that existed       *)
(* between its start and its return; it never answers not-found when every *)
(* such state resolves the name.                                           *)
(***************************************************************************)
C28_ResolveAtomic ==
    ResolveReturned =>
        /\ ~last.raised
        /\ \E k \in last.args.start..last.args.end :
              last.ret = ThreeCaseRule(StoreAt(k), last.args.name)

(***************************************************************************)
(* C29: whenever the connection slot is not empty, the round-trip query    *)
(* SELECT 1 has already succeeded on the connection it holds, also in the  *)
(* states in the middle of a connect call.                                 *)
(***************************************************************************)
C29_SlotHoldsVerified == engine # None => run.pc # "select_1"

(***************************************************************************)
(* The sort column of a query and its projection.                          *)
(***************************************************************************)
\* the columns the projection keeps: the requested ones that exist
ProjectedColumns(df, a) == SelectSeq(a.columns, LAMBDA c : HasColumn(df, c))

\* sort_by names a column of the dataset that the projection drops
SortsByDroppedColumn ==
    /\ last.tool = "query_data"
    /\ QueriedFrame # None
    /\ last.args.columns # <<>>
    /\ last.args.sort_by # ""
    /\ HasColumn(QueriedFrame, last.args.sort_by)
    /\ last.args.sort_by \notin Range(ProjectedColumns(QueriedFrame, last.args))

SortColumnNotFound ==
    /\ last.ret.status = "error"
    /\ "sort_by" \in DOMAIN last.ret.message
    /\ last.ret.message.sort_by = last.args.sort_by
    /\ last.ret.message.columns = ProjectedColumns(QueriedFrame, last.args)

SortedOnlyIfKept ==
    (QuerySucceeded /\ last.args.sort_by # "") =>
        \/ last.args.columns = <<>>
        \/ last.args.sort_by \in Range(ProjectedColumns(QueriedFrame, last.args))

\* the call gets as far as the sort: the filter and the projection do not fail
ReachesSort ==
    /\ (last.args.filter_column # "" /\ last.args.filter_value # <<>>) =>
          /\ HasColumn(QueriedFrame, last.args.filter_column)
          /\ ~BadRegex(last.args.filter_value)
    /\ ProjectedColumns(QueriedFrame, last.args) # <<>>

(***************************************************************************)
(* C30 as stated: a query with columns given and a sort_by that names a    *)
(* dataset column not among the selected columns returns the               *)
(* sort-column-not-found error listing the projected columns only; sorting *)
(* succeeds only if the column survives the projection or there is none.   *)
(***************************************************************************)
C30_SortColumnAfterProjection ==
    /\ SortsByDroppedColumn => SortColumnNotFound
    /\ SortedOnlyIfKept

(***************************************************************************)
(* C30, amended: the same for a query that gets as far as the sort, that   *)
(* is whose filter, if any, names an existing column with a valid pattern  *)
(* and whose projection keeps at least one column; the errors of the       *)
(* earlier stages come first.                                              *)
(***************************************************************************)
C30_SortColumnAfterProjectionReached ==
    /\ (SortsByDroppedColumn /\ ReachesSort) => SortColumnNotFound
    /\ (SortsByDroppedColumn /\ ~ReachesSort) =>
          last.ret.status = "error" /\ "sort_by" \notin DOMAIN last.ret.message
    /\ SortedOnlyIfKept

C30_Witness ==
    /\ SortsByDroppedColumn
    /\ ReachesSort
    /\ last.args.columns = <<"sal">>
    /\ last.args.sort_by = "dept"
    /\ last.args.filter_column = "dept"
    /\ last.args.filter_value # <<>>
    /\ Len(QueriedFrame.rows) > 0
    /\ SortColumnNotFound

====
